---- MODULE Spec2Model ----
(***************************************************************************)
(* A model of json_rule_engine: the RuleEngine evaluator                   *)
(* (src/json_rule_engine/evaluator.py) over the JSON value domain, with    *)
(* Python's semantics for truthiness, equality, float(), str(), min/max    *)
(* and exceptions.                                                          *)
(*                                                                          *)
(* Values are tagged records.  A string is a sequence of one-character     *)
(* strings, so that lower(), float(), str() and ordering are computed      *)
(* rather than assumed.  A Python exception is the value Exc(name); every  *)
(* operation propagates it the way an uncaught exception unwinds.          *)
(***************************************************************************)
EXTENDS Integers, Sequences, FiniteSets, TLC

(* ------------------------------------------------------------------ *)
(* The value domain                                                     *)
(* ------------------------------------------------------------------ *)

Null == [k |-> "null"]
Bool(b) == [k |-> "bool", b |-> b]
IntV(n) == [k |-> "int", n |-> n]
\* A Python float, kept exact as the fraction n/d in lowest terms, d >= 1.
Float(n, d) == [k |-> "float", n |-> n, d |-> d]
Str(s) == [k |-> "str", s |-> s]
List(xs) == [k |-> "list", items |-> xs]
\* A Python dict: its keys (strings) in insertion order and their values.
Dict(ks, vs) == [k |-> "dict", keys |-> ks, vals |-> vs]
\* An exception in flight.
Exc(e) == [k |-> "raise", e |-> e]

PyTrue == Bool(TRUE)
PyFalse == Bool(FALSE)
EmptyDict == Dict(<<>>, <<>>)
EmptyList == List(<<>>)

IsExc(v) == v.k = "raise"
IsStr(v) == v.k = "str"
IsDict(v) == v.k = "dict"
\* isinstance(v, (list, tuple))
IsList(v) == v.k = "list"
\* isinstance(v, (int, float)): bool is a subclass of int.
IsNumber(v) == v.k \in {"int", "float", "bool"}
\* Python's hash(): lists and dicts are unhashable.
IsHashable(v) == v.k \notin {"list", "dict"}

(* ------------------------------------------------------------------ *)
(* Characters                                                           *)
(* ------------------------------------------------------------------ *)

\* The printable ASCII characters in code-point order, from 32 to 126 (the
\* double quote, the backslash and the backtick are spelled out).
Ascii ==
  << " ", "!", "DQUOTE", "#", "$", "%", "&", "'", "(", ")", "*", "+", ",", "-",
     ".", "/", "0", "1", "2", "3", "4", "5", "6", "7", "8", "9", ":", ";",
     "<", "=", ">", "?", "@", "A", "B", "C", "D", "E", "F", "G", "H", "I",
     "J", "K", "L", "M", "N", "O", "P", "Q", "R", "S", "T", "U", "V", "W",
     "X", "Y", "Z", "[", "BACKSLASH", "]", "^", "_", "BACKTICK", "a", "b", "c", "d", "e",
     "f", "g", "h", "i", "j", "k", "l", "m", "n", "o", "p", "q", "r", "s",
     "t", "u", "v", "w", "x", "y", "z", "{", "|", "}", "~" >>

\* ord(c)
Ord(c) == 31 + (CHOOSE i \in 1..Len(Ascii) : Ascii[i] = c)
\* chr(n)
Chr(n) == Ascii[n - 31]
IsDigit(c) == Ord(c) >= Ord("0") /\ Ord(c) <= Ord("9")
DigitVal(c) == Ord(c) - Ord("0")
\* c.lower()
LowerChar(c) == IF Ord(c) >= Ord("A") /\ Ord(c) <= Ord("Z") THEN Chr(Ord(c) + 32) ELSE c
\* s.lower()
Lower(s) == [i \in 1..Len(s) |-> LowerChar(s[i])]

\* Python's str < str: lexicographic by code point.
RECURSIVE StrLess(_, _)
StrLess(s, t) ==
  IF t = <<>> THEN FALSE
  ELSE IF s = <<>> THEN TRUE
  ELSE IF s[1] # t[1] THEN Ord(s[1]) < Ord(t[1])
  ELSE StrLess(Tail(s), Tail(t))

\* t in s, for strings: t is a contiguous substring of s.
Contains(s, t) ==
  \E i \in 0..(Len(s) - Len(t)) : SubSeq(s, i + 1, i + Len(t)) = t
\* s.startswith(t)
StartsWith(s, t) == Len(t) <= Len(s) /\ SubSeq(s, 1, Len(t)) = t
\* s.endswith(t)
EndsWith(s, t) == Len(t) <= Len(s) /\ SubSeq(s, Len(s) - Len(t) + 1, Len(s)) = t

RECURSIVE Concat(_)
\* ''.join(ss)
Concat(ss) == IF ss = <<>> THEN <<>> ELSE Head(ss) \o Concat(Tail(ss))

(* ------------------------------------------------------------------ *)
(* Python's built-ins, as the evaluator uses them                      *)
(* ------------------------------------------------------------------ *)

\* A value the model does not represent (a float that is not a small dyadic
\* fraction, float('1e5'), a repr that needs escaping).  No specification
\* below may produce it: see NoUnmodelled.
Unmodelled == Exc("Unmodelled")

Abs(n) == IF n < 0 THEN -n ELSE n
RECURSIVE Gcd(_, _)
Gcd(a, b) == IF b = 0 THEN a ELSE Gcd(b, a % b)

\* The float n/d (d > 0) in lowest terms.  Binary floating point is exact on
\* the dyadic fractions of small magnitude, and only those are represented.
MkFloat(n, d) ==
  LET g == Gcd(Abs(n), d)
      nn == n \div g
      dd == d \div g
  IN IF dd \in {1, 2, 4, 8} THEN Float(nn, dd) ELSE Unmodelled

\* The numerator and denominator of a number (int, float or bool).
NumN(v) == IF v.k = "bool" THEN (IF v.b THEN 1 ELSE 0) ELSE v.n
NumD(v) == IF v.k = "float" THEN v.d ELSE 1
NumLess(a, b) == NumN(a) * NumD(b) < NumN(b) * NumD(a)
NumEq(a, b) == NumN(a) * NumD(b) = NumN(b) * NumD(a)

\* bool(v)
Truthy(v) ==
  CASE v.k = "null" -> FALSE
    [] v.k = "bool" -> v.b
    [] v.k \in {"int", "float"} -> v.n # 0
    [] v.k = "str" -> v.s # <<>>
    [] v.k = "list" -> v.items # <<>>
    [] v.k = "dict" -> v.keys # <<>>

\* The index of key in a dict's keys, 0 when absent.
KeyIndex(d, key) ==
  IF \E i \in 1..Len(d.keys) : d.keys[i] = key
  THEN CHOOSE i \in 1..Len(d.keys) : d.keys[i] = key
  ELSE 0

RECURSIVE PyEq(_, _)
\* a == b
PyEq(a, b) ==
  CASE IsNumber(a) /\ IsNumber(b) -> NumEq(a, b)
    [] a.k = "null" /\ b.k = "null" -> TRUE
    [] a.k = "str" /\ b.k = "str" -> a.s = b.s
    [] a.k = "list" /\ b.k = "list" ->
         /\ Len(a.items) = Len(b.items)
         /\ \A i \in 1..Len(a.items) : PyEq(a.items[i], b.items[i])
    [] a.k = "dict" /\ b.k = "dict" ->
         /\ Len(a.keys) = Len(b.keys)
         /\ \A i \in 1..Len(a.keys) :
              /\ KeyIndex(b, a.keys[i]) # 0
              /\ PyEq(a.vals[i], b.vals[KeyIndex(b, a.keys[i])])
    [] OTHER -> FALSE

\* type(a) == type(b)
TypeEq(a, b) == a.k = b.k

\* s.strip(), for the one whitespace character of the table.
RECURSIVE LStrip(_)
LStrip(s) == IF s # <<>> /\ Head(s) = " " THEN LStrip(Tail(s)) ELSE s
RECURSIVE RStrip(_)
RStrip(s) == IF s # <<>> /\ s[Len(s)] = " " THEN RStrip(SubSeq(s, 1, Len(s) - 1)) ELSE s

RECURSIVE DigitsVal(_)
\* The number a string of digits denotes.
DigitsVal(s) == IF s = <<>> THEN 0 ELSE DigitsVal(SubSeq(s, 1, Len(s) - 1)) * 10 + DigitVal(s[Len(s)])
RECURSIVE Pow10(_)
Pow10(p) == IF p = 0 THEN 1 ELSE 10 * Pow10(p - 1)

\* float(s) for a string s: optional blanks, an optional sign, digits with an
\* optional point.  Exponents, underscores, inf and nan are not represented.
ParseFloat(s0) ==
  LET s == RStrip(LStrip(s0))
      signed == s # <<>> /\ s[1] \in {"+", "-"}
      body == IF signed THEN Tail(s) ELSE s
      sign == IF signed /\ s[1] = "-" THEN -1 ELSE 1
      dots == {i \in 1..Len(body) : body[i] = "."}
      plain == \A i \in 1..Len(body) : body[i] = "." \/ IsDigit(body[i])
      exotic == \A i \in 1..Len(body) :
                  body[i] = "." \/ IsDigit(body[i]) \/ body[i] \in {"e", "E", "_"}
      ip == IF dots = {} THEN body ELSE SubSeq(body, 1, (CHOOSE i \in dots : TRUE) - 1)
      fp == IF dots = {} THEN <<>> ELSE SubSeq(body, (CHOOSE i \in dots : TRUE) + 1, Len(body))
  IN IF Lower(body) \in {<<"i","n","f">>, <<"n","a","n">>,
                         <<"i","n","f","i","n","i","t","y">>} THEN Unmodelled
     ELSE IF plain /\ Cardinality(dots) <= 1 /\ Len(ip) + Len(fp) >= 1
       THEN MkFloat(sign * (DigitsVal(ip) * Pow10(Len(fp)) + DigitsVal(fp)), Pow10(Len(fp)))
     ELSE IF exotic /\ ~plain THEN Unmodelled
     ELSE Exc("ValueError")

\* float(v)
ToFloat(v) ==
  CASE v.k \in {"int", "bool"} -> Float(NumN(v), 1)
    [] v.k = "float" -> v
    [] v.k = "str" -> ParseFloat(v.s)
    [] v.k = "raise" -> v
    [] OTHER -> Exc("TypeError")

RECURSIVE NatStr(_)
\* The decimal digits of a natural number.
NatStr(n) == IF n < 10 THEN <<Chr(Ord("0") + n)>> ELSE NatStr(n \div 10) \o <<Chr(Ord("0") + (n % 10))>>
\* str(n) for an int.
IntStr(n) == IF n < 0 THEN <<"-">> \o NatStr(-n) ELSE NatStr(n)
RECURSIVE PadLeft(_, _)
PadLeft(s, w) == IF Len(s) >= w THEN s ELSE PadLeft(<<"0">> \o s, w)
\* str(x) for a float n/d, d in {1, 2, 4, 8}: its terminating decimal.
FloatStr(v) ==
  LET p == CASE v.d = 1 -> 0 [] v.d = 2 -> 1 [] v.d = 4 -> 2 [] v.d = 8 -> 3
      scaled == Abs(v.n) * (Pow10(p) \div v.d)
      ip == NatStr(scaled \div Pow10(p))
      fp == IF p = 0 THEN <<"0">> ELSE PadLeft(NatStr(scaled % Pow10(p)), p)
  IN (IF v.n < 0 THEN <<"-">> ELSE <<>>) \o ip \o <<".">> \o fp

\* Whether repr(s) is s between single quotes, with nothing to escape.
PlainRepr(s) == \A i \in 1..Len(s) : s[i] \notin {"'", "BACKSLASH"}

RECURSIVE JoinComma(_)
\* ', '.join(ss)
JoinComma(ss) ==
  IF ss = <<>> THEN <<>>
  ELSE IF Len(ss) = 1 THEN ss[1]
  ELSE ss[1] \o <<",", " ">> \o JoinComma(Tail(ss))

RECURSIVE ReprModelled(_)
\* Whether the model represents repr(v).
ReprModelled(v) ==
  CASE v.k = "str" -> PlainRepr(v.s)
    [] v.k = "float" -> Abs(v.n) < Pow10(6)
    [] v.k = "list" -> \A i \in 1..Len(v.items) : ReprModelled(v.items[i])
    [] v.k = "dict" -> \A i \in 1..Len(v.keys) : PlainRepr(v.keys[i]) /\ ReprModelled(v.vals[i])
    [] v.k = "raise" -> FALSE
    [] OTHER -> TRUE

RECURSIVE Repr(_)
\* repr(v), a string.
Repr(v) ==
  CASE v.k = "null" -> <<"N","o","n","e">>
    [] v.k = "bool" -> IF v.b THEN <<"T","r","u","e">> ELSE <<"F","a","l","s","e">>
    [] v.k = "int" -> IntStr(v.n)
    [] v.k = "float" -> FloatStr(v)
    [] v.k = "str" -> <<"'">> \o v.s \o <<"'">>
    [] v.k = "list" ->
         <<"[">> \o JoinComma([i \in 1..Len(v.items) |-> Repr(v.items[i])]) \o <<"]">>
    [] v.k = "dict" ->
         <<"{">> \o JoinComma([i \in 1..Len(v.keys) |->
                     <<"'">> \o v.keys[i] \o <<"'", ":", " ">> \o Repr(v.vals[i])]) \o <<"}">>

\* str(v): the value Str(...), a string being its own str().
StrOf(v) ==
  IF v.k = "raise" THEN v
  ELSE IF v.k = "str" THEN v
  ELSE IF ReprModelled(v) THEN Str(Repr(v))
  ELSE Unmodelled

RECURSIVE PyLess(_, _)
\* a < b, the value True or False, or the TypeError of unorderable types.
PyLess(a, b) ==
  CASE IsNumber(a) /\ IsNumber(b) -> Bool(NumLess(a, b))
    [] a.k = "str" /\ b.k = "str" -> Bool(StrLess(a.s, b.s))
    [] a.k = "list" /\ b.k = "list" ->
         LET diff == {i \in 1..Len(a.items) :
                        i <= Len(b.items) /\ ~PyEq(a.items[i], b.items[i])}
         IN IF diff = {} THEN Bool(Len(a.items) < Len(b.items))
            ELSE LET i == CHOOSE i \in diff : \A j \in diff : i <= j
                 IN PyLess(a.items[i], b.items[i])
    [] OTHER -> Exc("TypeError")


(* ------------------------------------------------------------------ *)
(* The operator tokens                                                 *)
(* ------------------------------------------------------------------ *)

OpVar == <<"v", "a", "r">>
OpAnd == <<"a", "n", "d">>
OpOr == <<"o", "r">>
OpNot == <<"!">>
OpBool == <<"!", "!">>
OpEq == <<"=", "=">>
OpStrictEq == <<"=", "=", "=">>
OpNe == <<"!", "=">>
OpStrictNe == <<"!", "=", "=">>
OpGt == <<">">>
OpGe == <<">", "=">>
OpLt == <<"<">>
OpLe == <<"<", "=">>
OpIn == <<"i", "n">>
OpCat == <<"c", "a", "t">>
OpAdd == <<"+">>
OpSub == <<"-">>
OpMul == <<"*">>
OpDiv == <<"/">>
OpMod == <<"%">>
OpMin == <<"m", "i", "n">>
OpMax == <<"m", "a", "x">>
OpMerge == <<"m", "e", "r", "g", "e">>
OpMissing == <<"m", "i", "s", "s", "i", "n", "g">>
OpIf == <<"i", "f">>
OpSome == <<"s", "o", "m", "e">>
OpAll == <<"a", "l", "l">>
OpNone == <<"n", "o", "n", "e">>
OpTernary == <<"?", ":">>
OpContains == <<"_", "c", "o", "n", "t", "a", "i", "n", "s">>
OpStartsWith == <<"_", "s", "t", "a", "r", "t", "s", "w", "i", "t", "h">>
OpEndsWith == <<"_", "e", "n", "d", "s", "w", "i", "t", "h">>
OpIsEmpty == <<"_", "i", "s", "_", "e", "m", "p", "t", "y">>
OpIsNotEmpty == <<"_", "i", "s", "_", "n", "o", "t", "_", "e", "m", "p", "t", "y">>

\* The recognized vocabulary.
Tokens ==
  {OpVar, OpAnd, OpOr, OpNot, OpBool, OpEq,
   OpStrictEq, OpNe, OpStrictNe, OpGt, OpGe, OpLt,
   OpLe, OpIn, OpCat, OpAdd, OpSub, OpMul,
   OpDiv, OpMod, OpMin, OpMax, OpMerge, OpMissing,
   OpIf, OpSome, OpAll, OpNone, OpTernary, OpContains,
   OpStartsWith, OpEndsWith, OpIsEmpty, OpIsNotEmpty}
\* The operators _eval handles itself, handing them their operands unevaluated.
ControlTokens == {OpVar, OpSome, OpAll, OpNone, OpIf}

(* ------------------------------------------------------------------ *)
(* Float arithmetic                                                     *)
(* ------------------------------------------------------------------ *)

\* a + b, of an int or float a and a float b: a float.
FAdd(a, b) == MkFloat(NumN(a) * NumD(b) + NumN(b) * NumD(a), NumD(a) * NumD(b))
\* a - b
FSub(a, b) == MkFloat(NumN(a) * NumD(b) - NumN(b) * NumD(a), NumD(a) * NumD(b))
\* -a: the negative zero -0.0 is not represented.
FNeg(a) == IF NumN(a) = 0 THEN Unmodelled ELSE Float(-NumN(a), NumD(a))
\* a * b
FMul(a, b) ==
  IF NumN(a) * NumN(b) = 0 /\ (NumN(a) < 0 \/ NumN(b) < 0) THEN Unmodelled
  ELSE MkFloat(NumN(a) * NumN(b), NumD(a) * NumD(b))
\* a / b, b # 0
FDiv(a, b) ==
  IF NumN(a) = 0 /\ NumN(b) < 0 THEN Unmodelled
  ELSE IF NumN(b) < 0 THEN MkFloat(-(NumN(a) * NumD(b)), NumD(a) * (-NumN(b)))
  ELSE MkFloat(NumN(a) * NumD(b), NumD(a) * NumN(b))
\* a % b, b # 0: the remainder takes the divisor's sign.
FMod(a, b) ==
  LET x == NumN(a) * NumD(b)
      y == NumN(b) * NumD(a)
      r == IF y > 0 THEN x % y ELSE -((-x) % (-y))
  IN IF r = 0 /\ y < 0 THEN Unmodelled ELSE MkFloat(r, NumD(a) * NumD(b))

RECURSIVE SumFloats(_, _)
\* sum(float(v) for v in values), continued from the partial sum acc.
SumFloats(acc, values) ==
  IF values = <<>> THEN acc
  ELSE LET f == ToFloat(Head(values))
       IN IF IsExc(f) THEN f
          ELSE LET t == FAdd(acc, f)
               IN IF IsExc(t) THEN t ELSE SumFloats(t, Tail(values))

RECURSIVE MulFloats(_, _)
\* for v in values: result *= float(v)
MulFloats(acc, values) ==
  IF values = <<>> THEN acc
  ELSE LET f == ToFloat(Head(values))
       IN IF IsExc(f) THEN f
          ELSE LET t == FMul(acc, f)
               IN IF IsExc(t) THEN t ELSE MulFloats(t, Tail(values))

RECURSIVE MinFrom(_, _)
\* min(values), continued from the least value m so far.
MinFrom(m, values) ==
  IF values = <<>> THEN m
  ELSE LET lt == PyLess(Head(values), m)
       IN IF IsExc(lt) THEN lt
          ELSE MinFrom(IF lt.b THEN Head(values) ELSE m, Tail(values))

RECURSIVE MaxFrom(_, _)
\* max(values), continued from the greatest value m so far.
MaxFrom(m, values) ==
  IF values = <<>> THEN m
  ELSE LET gt == PyLess(m, Head(values))
       IN IF IsExc(gt) THEN gt
          ELSE MaxFrom(IF gt.b THEN Head(values) ELSE m, Tail(values))

RECURSIVE Flatten(_)
\* merge: the sequence-valued operands spliced in, the others appended.
Flatten(values) ==
  IF values = <<>> THEN <<>>
  ELSE (IF IsList(Head(values)) THEN Head(values).items ELSE <<Head(values)>>)
       \o Flatten(Tail(values))

RECURSIVE StrAll(_)
\* [str(v) for v in values]: the strings, or the first value that is none.
StrAll(values) ==
  IF values = <<>> THEN List(<<>>)
  ELSE LET h == StrOf(Head(values))
           t == StrAll(Tail(values))
       IN IF IsExc(h) THEN h ELSE IF IsExc(t) THEN t ELSE List(<<h.s>> \o t.items)

\* needle in haystack, the haystack neither None nor a string.
Member(needle, haystack) ==
  CASE haystack.k = "list" ->
         Bool(\E i \in 1..Len(haystack.items) : PyEq(needle, haystack.items[i]))
    [] haystack.k = "dict" ->
         IF ~IsHashable(needle) THEN Exc("TypeError")
         ELSE Bool(IsStr(needle) /\ KeyIndex(haystack, needle.s) # 0)
    [] OTHER -> Exc("TypeError")

(* ------------------------------------------------------------------ *)
(* RuleEngine._soft_eq, RuleEngine._compare                             *)
(* ------------------------------------------------------------------ *)

\* A faulty equality, without the string/number coercion of _soft_eq.
direct_eq(a, b) == Bool(PyEq(a, b))

\* A faulty comparison, of the string forms whatever the operands.
string_compare(a, b) ==
  LET sa == StrOf(a)
      sb == StrOf(b)
  IN IF IsExc(sa) THEN sa
     ELSE IF IsExc(sb) THEN sb
     ELSE IF StrLess(sa.s, sb.s) THEN IntV(-1)
     ELSE IF StrLess(sb.s, sa.s) THEN IntV(1) ELSE IntV(0)

\* The comparison of a string with a number in _soft_eq: f is float() of
\* the string, whose ValueError is caught and gives False.
eq_parsed(f, x, y) ==
  IF f = Exc("ValueError") THEN PyFalse
  ELSE IF IsExc(f) THEN f ELSE Bool(NumEq(x, y))

\* _soft_eq(a, b): the value True or False.
soft_eq(a, b) ==
  IF a.k = "null" /\ b.k = "null" THEN PyTrue
  ELSE IF a.k = "null" \/ b.k = "null" THEN PyFalse
  ELSE IF IsStr(a) /\ IsNumber(b) THEN eq_parsed(ParseFloat(a.s), ParseFloat(a.s), b)
  ELSE IF IsStr(b) /\ IsNumber(a) THEN eq_parsed(ParseFloat(b.s), a, ParseFloat(b.s))
  ELSE Bool(PyEq(a, b))

\* The exceptions that the try block of _compare catches.
Caught(x) == x \in {Exc("ValueError"), Exc("TypeError")}

\* The except branch of _compare, on the string forms sa and sb.
str_order(sa, sb) ==
  IF IsExc(sa) THEN sa
  ELSE IF IsExc(sb) THEN sb
  ELSE IF StrLess(sa.s, sb.s) THEN IntV(-1)
  ELSE IF StrLess(sb.s, sa.s) THEN IntV(1) ELSE IntV(0)

\* The try block of _compare, on the floats a_num and b_num.
num_order(a_num, b_num) ==
  IF NumLess(a_num, b_num) THEN IntV(-1)
  ELSE IF NumLess(b_num, a_num) THEN IntV(1) ELSE IntV(0)

\* _compare(a, b) with a_num = float(a) and b_num = float(b).
compare_floats(a, b, a_num, b_num) ==
  IF ~Caught(a_num) /\ IsExc(a_num) THEN a_num
  ELSE IF ~Caught(a_num) /\ ~Caught(b_num) /\ IsExc(b_num) THEN b_num
  ELSE IF ~Caught(a_num) /\ ~Caught(b_num) THEN num_order(a_num, b_num)
  ELSE str_order(StrOf(a), StrOf(b))

\* _compare(a, b): the int -1, 0 or 1.
compare(a, b) == compare_floats(a, b, ToFloat(a), ToFloat(b))


(* ------------------------------------------------------------------ *)
(* RuleEngine._apply_op                                                 *)
(* ------------------------------------------------------------------ *)

\* c > 0, c >= 0, c < 0 or c <= 0 of the int c that _compare returned, as
\* the operator asks (an exception passes through).
Rel(c, op) ==
  IF IsExc(c) THEN c
  ELSE CASE op = OpGt -> Bool(c.n > 0)
         [] op = OpGe -> Bool(c.n >= 0)
         [] op = OpLt -> Bool(c.n < 0)
         [] op = OpLe -> Bool(c.n <= 0)

\* not v, for the value True or False v (an exception passes through).
NotV(v) == IF IsExc(v) THEN v ELSE Bool(~v.b)

\* The string predicates on the string forms sx and sy, the pattern's
\* form being taken first.
str_pred(op, sx, sy) ==
  IF IsExc(sy) THEN sy
  ELSE IF IsExc(sx) THEN sx
  ELSE CASE op = OpContains -> Bool(Contains(Lower(sx.s), Lower(sy.s)))
         [] op = OpStartsWith -> Bool(StartsWith(Lower(sx.s), Lower(sy.s)))
         [] op = OpEndsWith -> Bool(EndsWith(Lower(sx.s), Lower(sy.s)))

\* The string predicates on subject x and pattern y, false on a falsy x:
\* str(y).lower() in str(x).lower(), str(x).lower().startswith(str(y).lower())
\* or str(x).lower().endswith(str(y).lower()).
StrPred(op, x, y) == IF ~Truthy(x) THEN PyFalse ELSE str_pred(op, StrOf(x), StrOf(y))

\* The comparison operators, reached with at least two values.
apply_comparison(op, a, b) ==
  IF op \in {OpGt, OpGe, OpLt, OpLe} THEN Rel(compare(a, b), op)
  ELSE IF op = OpStrictEq THEN Bool(TypeEq(a, b) /\ PyEq(a, b))
  ELSE IF op = OpStrictNe THEN Bool(~(TypeEq(a, b) /\ PyEq(a, b)))
  ELSE IF op = OpEq THEN soft_eq(a, b)
  ELSE NotV(soft_eq(a, b))

\* str(needle).lower() in haystack.lower(), sn being str(needle).
in_str(sn, haystack) ==
  IF IsExc(sn) THEN sn ELSE Bool(Contains(Lower(haystack.s), Lower(sn.s)))

\* "in" on a needle and a haystack: False on a None haystack, the
\* case-insensitive substring test on a string, `needle in haystack` otherwise.
op_in(needle, haystack) ==
  IF haystack.k = "null" THEN PyFalse
  ELSE IF IsStr(haystack) THEN in_str(StrOf(needle), haystack)
  ELSE Member(needle, haystack)

\* "cat": ''.join of the string forms ss.
op_cat(ss) == IF IsExc(ss) THEN ss ELSE Str(Concat(ss.items))

\* v in (None, '', [])
is_empty(v) == Bool(v.k = "null" \/ PyEq(v, Str(<<>>)) \/ PyEq(v, EmptyList))

\* "-" with one value: -f, f being its float.
op_neg(f) == IF IsExc(f) THEN f ELSE FNeg(f)

\* "-" with more values: f - t, f the float of the first and t the sum of
\* the floats of the others.
op_sub(f, t) == IF IsExc(f) THEN f ELSE IF IsExc(t) THEN t ELSE FSub(f, t)

\* "/": f / d if d != 0 else 0; the conditional evaluates float(values[1])
\* first, and float(values[0]) only when the divisor is not zero.
op_div(f, d) ==
  IF IsExc(d) THEN d
  ELSE IF NumN(d) = 0 THEN IntV(0)
  ELSE IF IsExc(f) THEN f
  ELSE FDiv(f, d)

\* "%": f % d, the operands converted left to right.
op_mod(f, d) ==
  IF IsExc(f) THEN f
  ELSE IF IsExc(d) THEN d
  ELSE IF NumN(d) = 0 THEN Exc("ZeroDivisionError")
  ELSE FMod(f, d)

\* The operators after the comparisons.
apply_rest(op, values) ==
  CASE op = OpIn -> IF Len(values) >= 2 THEN op_in(values[1], values[2]) ELSE PyFalse
    [] op = OpCat -> op_cat(StrAll(values))
    [] op \in {OpContains, OpStartsWith, OpEndsWith} ->
         IF Len(values) >= 2 THEN StrPred(op, values[1], values[2]) ELSE PyFalse
    [] op = OpIsEmpty -> is_empty(IF Len(values) > 0 THEN values[1] ELSE Null)
    [] op = OpIsNotEmpty -> NotV(is_empty(IF Len(values) > 0 THEN values[1] ELSE Null))
    [] op = OpAdd ->
         IF Len(values) = 1 THEN ToFloat(values[1]) ELSE SumFloats(IntV(0), values)
    [] op = OpSub ->
         IF Len(values) = 1 THEN op_neg(ToFloat(values[1]))
         ELSE IF Len(values) = 0 THEN Exc("IndexError")
         ELSE op_sub(ToFloat(values[1]), SumFloats(IntV(0), Tail(values)))
    [] op = OpMul -> MulFloats(IntV(1), values)
    [] op = OpDiv ->
         IF Len(values) >= 2 THEN op_div(ToFloat(values[1]), ToFloat(values[2])) ELSE IntV(0)
    [] op = OpMod ->
         IF Len(values) >= 2 THEN op_mod(ToFloat(values[1]), ToFloat(values[2])) ELSE IntV(0)
    [] op = OpMin ->
         IF Len(values) = 0 THEN Exc("ValueError") ELSE MinFrom(values[1], Tail(values))
    [] op = OpMax ->
         IF Len(values) = 0 THEN Exc("ValueError") ELSE MaxFrom(values[1], Tail(values))
    [] op = OpMerge -> List(Flatten(values))
    [] op = OpMissing ->
         \* the comprehension's filter reads `data`, a name _apply_op does not have
         IF Len(values) = 0 THEN EmptyList ELSE Exc("NameError")
    [] op = OpTernary ->
         IF Len(values) >= 3 THEN (IF Truthy(values[1]) THEN values[2] ELSE values[3])
         ELSE Null
    [] OTHER -> Null

\* _apply_op(op, values)
apply_op(op, values) ==
  CASE op = OpAnd -> Bool(\A i \in 1..Len(values) : Truthy(values[i]))
    [] op = OpOr -> Bool(\E i \in 1..Len(values) : Truthy(values[i]))
    [] op = OpNot -> IF values # <<>> THEN Bool(~Truthy(values[1])) ELSE PyTrue
    [] op = OpBool -> IF values # <<>> THEN Bool(Truthy(values[1])) ELSE PyFalse
    [] OTHER ->
         IF Len(values) >= 2
            /\ op \in {OpEq, OpStrictEq, OpNe, OpStrictNe, OpGt, OpGe, OpLt, OpLe}
         THEN apply_comparison(op, values[1], values[2])
         ELSE apply_rest(op, values)


(* ------------------------------------------------------------------ *)
(* Custom operators                                                     *)
(* ------------------------------------------------------------------ *)

\* a <= b
PyLe(a, b) == NotV(PyLess(b, a))

\* The functions a caller registers: demo.py's `between`, and two probes of
\* the kind the specification's tests use, `first` (returns its first value,
\* None without one) and `tagged` (returns the string 'custom').
CallCustom(func, values, data) ==
  CASE func = "between" ->
         IF Len(values) # 3 THEN PyFalse
         ELSE LET lo == PyLe(values[2], values[1])
              IN IF IsExc(lo) THEN lo
                 ELSE IF ~lo.b THEN PyFalse
                 ELSE PyLe(values[1], values[3])
    [] func = "first" -> IF values # <<>> THEN values[1] ELSE Null
    [] func = "tagged" -> Str(<<"c", "u", "s", "t", "o", "m">>)

\* The registry _custom_ops is a set of <<name, func>> pairs, one per name.
Registered(ops) == {e[1] : e \in ops}
Lookup(ops, name) == (CHOOSE e \in ops : e[1] = name)[2]
\* A faulty registration, which keeps the function a name already has.
keep_first(ops, name, func) ==
  IF name \in {e[1] : e \in ops} THEN ops ELSE ops \cup {<<name, func>>}
\* self._custom_ops[name] = func
Store(ops, name, func) == {e \in ops : e[1] # name} \cup {<<name, func>>}

(* ------------------------------------------------------------------ *)
(* RuleEngine._eval and the control operators                           *)
(* ------------------------------------------------------------------ *)

\* What an evaluation yields: its value (or the exception it ends in) and the
\* invocations of custom operators it made, in order.
Ret(v, calls) == [v |-> v, calls |-> calls]
Invocation(op, values, data) == [op |-> op, values |-> values, data |-> data]

RECURSIVE eval(_, _, _)
RECURSIVE eval_operands(_, _, _, _)
RECURSIVE op_array_loop(_, _, _, _, _)
RECURSIVE op_if_loop(_, _, _, _, _)

\* A faulty quantifier loop, which consults the first item only.
first_item_only(op, items, condition, ops, calls) ==
  LET r == eval(condition, Head(items), ops)
  IN IF IsExc(r.v) THEN Ret(r.v, calls \o r.calls)
     ELSE Ret(Bool(IF op = OpNone THEN ~Truthy(r.v) ELSE Truthy(r.v)), calls \o r.calls)

\* A faulty `if` loop, which evaluates a branch before testing its condition.
eager_if_loop(operands, i, data, ops, calls) ==
  IF i < Len(operands)
  THEN LET c == eval(operands[i], data, ops)
           t == eval(operands[i + 1], data, ops)
       IN IF IsExc(c.v) THEN Ret(c.v, calls \o c.calls)
          ELSE IF IsExc(t.v) THEN Ret(t.v, calls \o c.calls \o t.calls)
          ELSE IF Truthy(c.v) THEN Ret(t.v, calls \o c.calls \o t.calls)
          ELSE op_if_loop(operands, i + 2, data, ops, calls \o c.calls \o t.calls)
  ELSE IF Len(operands) % 2 = 1
    THEN LET e == eval(operands[Len(operands)], data, ops)
         IN Ret(e.v, calls \o e.calls)
  ELSE Ret(Null, calls)

\* data.get(var_name, default)
DictGet(data, var_name, default) ==
  IF ~IsHashable(var_name) THEN Exc("TypeError")
  ELSE IF IsStr(var_name) /\ KeyIndex(data, var_name.s) # 0
    THEN data.vals[KeyIndex(data, var_name.s)]
  ELSE default

\* _op_var(operands, data)
op_var(operands, data, ops) ==
  IF operands = <<>> THEN Ret(data, <<>>)
  ELSE LET r == eval(operands[1], data, ops)
           var_name == r.v
           default == IF Len(operands) > 1 THEN operands[2] ELSE Null
       IN IF IsExc(var_name) THEN r
          ELSE IF PyEq(var_name, Str(<<>>)) \/ var_name.k = "null" THEN Ret(data, r.calls)
          ELSE IF IsDict(data) THEN Ret(DictGet(data, var_name, default), r.calls)
          ELSE Ret(default, r.calls)

\* The result _op_array returns when the array is empty.
EmptyArrayResult(op) == op # OpSome /\ op # OpAll

\* `for item in array` of _op_array, from the items left.
op_array_loop(op, items, condition, ops, calls) ==
  IF items = <<>> THEN Ret(Bool(op # OpSome), calls)
  ELSE LET r == eval(condition, Head(items), ops)
           c == calls \o r.calls
       IN IF IsExc(r.v) THEN Ret(r.v, c)
          ELSE IF op = OpSome /\ Truthy(r.v) THEN Ret(PyTrue, c)
          ELSE IF op = OpAll /\ ~Truthy(r.v) THEN Ret(PyFalse, c)
          ELSE IF op = OpNone /\ Truthy(r.v) THEN Ret(PyFalse, c)
          ELSE op_array_loop(op, Tail(items), condition, ops, c)

\* A faulty _op_array, which evaluates its array expression before it counts
\* its operands.
array_before_count(op, operands, data, ops) ==
  IF operands = <<>> THEN Ret(Bool(op # OpSome), <<>>)
  ELSE LET r == eval(operands[1], data, ops)
       IN IF IsExc(r.v) THEN r
          ELSE IF Len(operands) # 2 THEN Ret(Bool(op # OpSome), r.calls)
          ELSE IF ~IsList(r.v) THEN Ret(Bool(op = OpNone), r.calls)
          ELSE IF Len(r.v.items) = 0 THEN Ret(Bool(EmptyArrayResult(op)), r.calls)
          ELSE op_array_loop(op, r.v.items, operands[2], ops, r.calls)

\* _op_array(op, operands, data)
op_array(op, operands, data, ops) ==
  IF Len(operands) # 2 THEN Ret(Bool(op # OpSome), <<>>)
  ELSE LET r == eval(operands[1], data, ops)
           array == r.v
           condition == operands[2]
       IN IF IsExc(array) THEN r
          ELSE IF ~IsList(array) THEN Ret(Bool(op = OpNone), r.calls)
          ELSE IF Len(array.items) = 0 THEN Ret(Bool(EmptyArrayResult(op)), r.calls)
          ELSE op_array_loop(op, array.items, condition, ops, r.calls)

\* The `while` of _op_if from index i (counted from 1), and what follows it.
op_if_loop(operands, i, data, ops, calls) ==
  IF i < Len(operands)
  THEN LET c == eval(operands[i], data, ops)
       IN IF IsExc(c.v) THEN Ret(c.v, calls \o c.calls)
          ELSE IF Truthy(c.v)
            THEN LET t == eval(operands[i + 1], data, ops)
                 IN Ret(t.v, calls \o c.calls \o t.calls)
          ELSE op_if_loop(operands, i + 2, data, ops, calls \o c.calls)
  ELSE IF Len(operands) % 2 = 1
    THEN LET e == eval(operands[Len(operands)], data, ops)
         IN Ret(e.v, calls \o e.calls)
  ELSE Ret(Null, calls)

\* _op_if(operands, data)
op_if(operands, data, ops) == op_if_loop(operands, 1, data, ops, <<>>)

\* A faulty evaluation of operands, which stops after the first falsy value
\* the way a short-circuiting `and` would.
until_falsy(operands, data, ops, calls) ==
  IF operands = <<>> THEN Ret(List(<<>>), calls)
  ELSE LET h == eval(Head(operands), data, ops)
       IN IF IsExc(h.v) THEN Ret(h.v, calls \o h.calls)
          ELSE IF ~Truthy(h.v) THEN Ret(List(<<h.v>>), calls \o h.calls)
          ELSE LET t == eval_operands(Tail(operands), data, ops, calls \o h.calls)
               IN IF IsExc(t.v) THEN t ELSE Ret(List(<<h.v>> \o t.v.items), t.calls)

\* values = [self._eval(o, data) for o in operands], from the operands left:
\* the list of values, or the exception the first failing operand ends in.
eval_operands(operands, data, ops, calls) ==
  IF operands = <<>> THEN Ret(List(<<>>), calls)
  ELSE LET h == eval(Head(operands), data, ops)
       IN IF IsExc(h.v) THEN Ret(h.v, calls \o h.calls)
          ELSE LET t == eval_operands(Tail(operands), data, ops, calls \o h.calls)
               IN IF IsExc(t.v) THEN t ELSE Ret(List(<<h.v>> \o t.v.items), t.calls)

\* operands = rules[op], a non-list made a one-element list
Operands(raw) == IF IsList(raw) THEN raw.items ELSE <<raw>>

\* A faulty dispatch, which consults the standard table before the registry.
standard_first(op, ops) == op \in Registered(ops) /\ op \notin Tokens

\* Whether _eval hands the operator to the registry.
IsCustom(op, ops) == op \in Registered(ops)

\* _eval(rules, data), the registry being ops
eval(rules, data, ops) ==
  IF rules.k # "dict" THEN Ret(rules, <<>>)
  ELSE IF rules.keys = <<>> THEN Ret(PyTrue, <<>>)
  ELSE LET op == rules.keys[1]
           operands == Operands(rules.vals[1])
       IN IF op = OpVar THEN op_var(operands, data, ops)
          ELSE IF op \in {OpSome, OpAll, OpNone} THEN op_array(op, operands, data, ops)
          ELSE IF op = OpIf THEN op_if(operands, data, ops)
          ELSE LET vs == eval_operands(operands, data, ops, <<>>)
               IN IF IsExc(vs.v) THEN vs
                  ELSE IF IsCustom(op, ops)
                    THEN Ret(CallCustom(Lookup(ops, op), vs.v.items, data),
                             vs.calls \o <<Invocation(op, vs.v.items, data)>>)
                  ELSE Ret(apply_op(op, vs.v.items), vs.calls)


\* {op: operands}, and {op: x} with an operand that is not a list.
Node(op, operands) == Dict(<<op>>, <<List(operands)>>)
Node1(op, x) == Dict(<<op>>, <<x>>)

(* ------------------------------------------------------------------ *)
(* core.py: Rule, RuleSet, Evaluatable                                  *)
(* ------------------------------------------------------------------ *)

\* Logic.AND, Logic.OR, Logic.NOT, by their values.
LogicAnd == OpAnd
LogicOr == OpOr
LogicNot == OpNot

\* RuleSet(logic, rules): a branch of the rule tree.
RuleSet(logic, rs) == [k |-> "RuleSet", logic |-> logic, rules |-> rs]
\* A leaf of the rule tree: a Rule that is no RuleSet, whose to_json gives
\* the JsonLogic it stands for.
Leaf(json) == [k |-> "Rule", json |-> json]
\* isinstance(r, RuleSet), isinstance(r, Rule)
IsRuleSet(r) == r.k = "RuleSet"
IsRule(r) == r.k \in {"RuleSet", "Rule"}

RECURSIVE always_wrapped(_)
\* A faulty encoding, which wraps the children of an AND or OR however many
\* they are.
always_wrapped(rule) ==
  IF ~IsRuleSet(rule) THEN rule.json
  ELSE IF rule.logic = LogicNot
    THEN (IF rule.rules # <<>> THEN Node1(OpNot, always_wrapped(rule.rules[1])) ELSE EmptyDict)
  ELSE Node(rule.logic, [i \in 1..Len(rule.rules) |-> always_wrapped(rule.rules[i])])

RECURSIVE to_json(_)
\* rule.to_json(): RuleSet.to_json for a branch.
to_json(rule) ==
  IF ~IsRuleSet(rule) THEN rule.json
  ELSE IF rule.logic = LogicNot
    THEN (IF rule.rules # <<>> THEN Node1(OpNot, to_json(rule.rules[1])) ELSE EmptyDict)
  ELSE LET children == [i \in 1..Len(rule.rules) |-> to_json(rule.rules[i])]
       IN IF Len(children) = 0 THEN EmptyDict
          ELSE IF Len(children) = 1 THEN children[1]
          ELSE Node(rule.logic, children)

\* if isinstance(rules, Rule): rules = rules.to_json()
ToWire(r) == IF IsRule(r) THEN to_json(r) ELSE r

\* An Evaluatable object: its identity and the field values it holds.
Obj(id, fields) == [k |-> "object", id |-> id, fields |-> fields]
\* obj.to_eval_dict(): a mapping of the object's field values.
to_eval_dict(obj) == obj.fields

\* The body shared by __and__ and __or__: a RuleSet of the logic absorbs the
\* list of self when self is a RuleSet of that logic, else the list of other
\* when other is one, else it holds the two.
combine(logic, self, other) ==
  IF IsRuleSet(self) /\ self.logic = logic THEN RuleSet(logic, Append(self.rules, other))
  ELSE IF IsRuleSet(other) /\ other.logic = logic THEN RuleSet(logic, <<self>> \o other.rules)
  ELSE RuleSet(logic, <<self, other>>)
\* self & other
rule_and(self, other) == combine(LogicAnd, self, other)
\* self | other
rule_or(self, other) == combine(LogicOr, self, other)
\* ~self
rule_invert(self) == RuleSet(LogicNot, <<self>>)

\* Dependencies, with its four sets.
Dependencies(fields, tag_ids, phonebook_ids, custom_field_ids) ==
  [k |-> "Dependencies", fields |-> fields, tag_ids |-> tag_ids,
   phonebook_ids |-> phonebook_ids, custom_field_ids |-> custom_field_ids]
\* Dependencies(): four empty sets.
NewDependencies == Dependencies({}, {}, {}, {})

\* A faulty merge, which leaves out the custom field ids of the other one.
merge_without_custom(self, other) ==
  Dependencies(self.fields \cup other.fields, self.tag_ids \cup other.tag_ids,
               self.phonebook_ids \cup other.phonebook_ids, self.custom_field_ids)

\* self.merge(other): the object it returns.
merge(self, other) ==
  Dependencies(self.fields \cup other.fields, self.tag_ids \cup other.tag_ids,
               self.phonebook_ids \cup other.phonebook_ids,
               self.custom_field_ids \cup other.custom_field_ids)

(* ------------------------------------------------------------------ *)
(* RuleEngine.matches, test, batch, filter                              *)
(* ------------------------------------------------------------------ *)

\* bool(v); an exception passes through.
PyBool(v) == IF IsExc(v) THEN v ELSE Bool(Truthy(v))

\* What an entry point yields: its value (or the exception it ends in), the
\* custom-operator invocations, the objects whose to_eval_dict it called and
\* the clock events, each in order.
Done(v, calls, consulted, timeline) ==
  [v |-> v, calls |-> calls, consulted |-> consulted, timeline |-> timeline]

\* bool(...) of what evaluate yields.
MatchesOf(r) == Done(PyBool(r.v), r.calls, <<>>, <<>>)
\* matches(rules, data): bool(self.evaluate(rules, data))
run_matches(rules, data, ops) == MatchesOf(eval(ToWire(rules), data, ops))

\* {'matches': matches, 'non_matches': non_matches}
BatchResult(matches, non_matches) ==
  [k |-> "batch", matches |-> matches, non_matches |-> non_matches]

\* A faulty loop body, which puts each match in front of the earlier ones.
gather_in_front(acc, obj, r) ==
  [raised |-> IF IsExc(r.v) THEN r.v ELSE Null,
   matches |-> IF ~IsExc(r.v) /\ Truthy(r.v) THEN <<obj>> \o acc.matches ELSE acc.matches,
   non_matches |-> IF ~IsExc(r.v) /\ ~Truthy(r.v) THEN Append(acc.non_matches, obj)
                   ELSE acc.non_matches,
   consulted |-> Append(acc.consulted, obj),
   calls |-> acc.calls \o r.calls]

\* The body of `for obj in objects` of batch, for the object obj on which
\* _eval yields r; acc is what the loop has gathered so far.
gather(acc, obj, r) ==
  [raised |-> IF IsExc(r.v) THEN r.v ELSE Null,
   matches |-> IF ~IsExc(r.v) /\ Truthy(r.v) THEN Append(acc.matches, obj) ELSE acc.matches,
   non_matches |-> IF ~IsExc(r.v) /\ ~Truthy(r.v) THEN Append(acc.non_matches, obj)
                   ELSE acc.non_matches,
   consulted |-> Append(acc.consulted, obj),
   calls |-> acc.calls \o r.calls]

RECURSIVE batch_loop(_, _, _, _)
\* `for obj in objects` of batch, from the objects left, and the return.
batch_loop(rules, objects, ops, acc) ==
  IF IsExc(acc.raised) THEN Done(acc.raised, acc.calls, acc.consulted, <<>>)
  ELSE IF objects = <<>>
    THEN Done(BatchResult(acc.matches, acc.non_matches), acc.calls, acc.consulted, <<>>)
  ELSE batch_loop(rules, Tail(objects), ops,
                  gather(acc, Head(objects), eval(rules, to_eval_dict(Head(objects)), ops)))

\* batch(rules, objects)
run_batch(rules, objects, ops) ==
  batch_loop(ToWire(rules), objects, ops,
             [raised |-> Null, matches |-> <<>>, non_matches |-> <<>>,
              consulted |-> <<>>, calls |-> <<>>])

\* ...['matches'] of what batch yields.
MatchesPart(b) ==
  IF IsExc(b.v) THEN b ELSE Done(List(b.v.matches), b.calls, b.consulted, <<>>)
\* filter(rules, objects): self.batch(rules, objects)['matches']
run_filter(rules, objects, ops) == MatchesPart(run_batch(rules, objects, ops))

\* time.perf_counter() at tick t, in seconds: a tick is an eighth of a second.
perf_counter(t) == MkFloat(t, 8)
\* A clock event of test: what happens, and the tick it happens at.
At(ev, t) == [ev |-> ev, at |-> t]
\* EvalResult(matches, eval_time_ms)
EvalResult(matches, eval_time_ms) ==
  [k |-> "EvalResult", matches |-> matches, eval_time_ms |-> eval_time_ms]

\* test around what _eval yields (r): the clock read at tick t0, then
\* to_eval_dict taking c ticks, then _eval taking e ticks, then the clock
\* read again.
timed(r, obj, t0, c, e) ==
  LET start == perf_counter(t0)
      elapsed == FMul(FSub(perf_counter(t0 + c + e), start), Float(1000, 1))
      began == <<At("start", t0), At("to_eval_dict", t0), At("_eval", t0 + c)>>
  IN IF IsExc(r.v) THEN Done(r.v, r.calls, <<obj>>, began)
     ELSE Done(EvalResult(Truthy(r.v), elapsed), r.calls, <<obj>>,
               Append(began, At("stop", t0 + c + e)))

\* test(rules, obj), entered at tick t0
run_test(rules, obj, ops, t0, c, e) ==
  timed(eval(ToWire(rules), to_eval_dict(obj), ops), obj, t0, c, e)

(* ------------------------------------------------------------------ *)
(* The engine as a state machine                                        *)
(* ------------------------------------------------------------------ *)

VARIABLES
  custom_ops,  \* RuleEngine._custom_ops
  entry,       \* the entry point that has run ("idle" between calls)
  rules,       \* its rules argument
  data,        \* its data argument
  result,      \* what it returned, or the exception it raised
  calls,       \* the custom-operator invocations it made, in order
  consulted,   \* the objects whose to_eval_dict it called, in order
  timeline,    \* the clock events of test, in order
  heap,        \* the Dependencies and Rule objects that exist, by identity
  made,        \* the last call that returned an object: its name, operands and result
  default_engine, \* the module's _default_engine: 0 for None, else the engine's name
  threads,     \* per thread: where it is in its call, the call, its engine and outcome
  frames       \* per call frame: the values its call has gathered so far

vars ==
  <<custom_ops, entry, rules, data, result, calls, consulted, timeline, heap, made,
    default_engine, threads, frames>>
\* The state of the module and of the threads that call it concurrently.
thread_vars == <<default_engine, threads, frames>>
\* The most threads.
MaxThreads == 2
Threads == 1..MaxThreads
\* A thread outside any call.
Idle == [pc |-> "idle"]
\* No such call yet.
NoCall == [op |-> "none"]

\* RuleEngine.__init__
Init ==
  /\ custom_ops = {}
  /\ entry = "idle"
  /\ rules = Null
  /\ data = Null
  /\ result = Null
  /\ calls = <<>>
  /\ consulted = <<>>
  /\ timeline = <<>>
  /\ heap = <<>>
  /\ made = NoCall
  /\ default_engine = 0
  /\ threads = [t \in Threads |-> Idle]
  /\ frames = [t \in Threads |-> <<>>]

\* The most names the registry holds.
MaxOps == 1

\* register_operator(name, func)
register_operator(name, func) ==
  /\ entry = "idle"
  /\ Cardinality(Registered(custom_ops) \cup {name}) <= MaxOps
  /\ custom_ops' = Store(custom_ops, name, func)
  /\ made' = [op |-> "register_operator", name |-> name, func |-> func, out |-> "self"]
  /\ UNCHANGED <<entry, rules, data, result, calls, consulted, timeline, heap, thread_vars>>

\* The call ends with the outcome out: a value or an exception, and the
\* custom-operator invocations made on the way.
Outcome(out) ==
  /\ result' = out.v
  /\ calls' = out.calls

\* evaluate(rules, data), rules a JsonLogic value
evaluate(r, d) ==
  /\ entry = "idle"
  /\ entry' = "evaluate"
  /\ rules' = r
  /\ data' = d
  /\ Outcome(eval(ToWire(r), d, custom_ops))
  /\ UNCHANGED <<custom_ops, consulted, timeline, heap, made, thread_vars>>

\* The call ends with what the entry point yields.
Finish(out) ==
  /\ result' = out.v
  /\ calls' = out.calls
  /\ consulted' = out.consulted
  /\ timeline' = out.timeline

\* matches(rules, data)
matches(r, d) ==
  /\ entry = "idle"
  /\ entry' = "matches"
  /\ rules' = r
  /\ data' = d
  /\ Finish(run_matches(r, d, custom_ops))
  /\ UNCHANGED <<custom_ops, heap, made, thread_vars>>

\* batch(rules, objects)
batch(r, os) ==
  /\ entry = "idle"
  /\ entry' = "batch"
  /\ rules' = r
  /\ data' = List(os)
  /\ Finish(run_batch(r, os, custom_ops))
  /\ UNCHANGED <<custom_ops, heap, made, thread_vars>>

\* filter(rules, objects)
filter(r, os) ==
  /\ entry = "idle"
  /\ entry' = "filter"
  /\ rules' = r
  /\ data' = List(os)
  /\ Finish(run_filter(r, os, custom_ops))
  /\ UNCHANGED <<custom_ops, heap, made, thread_vars>>

\* The longest wait, in ticks, before and within a call of test.
MaxTicks == 2

\* test(rules, obj), entered at tick t0, to_eval_dict taking c ticks and
\* _eval taking e ticks
test(r, o, t0, c, e) ==
  /\ entry = "idle"
  /\ entry' = "test"
  /\ rules' = r
  /\ data' = o
  /\ Finish(run_test(r, o, custom_ops, t0, c, e))
  /\ UNCHANGED <<custom_ops, heap, made, thread_vars>>

\* The caller takes the result; the engine is ready for the next call.
Return ==
  /\ entry # "idle"
  /\ entry' = "idle"
  /\ rules' = Null
  /\ data' = Null
  /\ result' = Null
  /\ calls' = <<>>
  /\ consulted' = <<>>
  /\ timeline' = <<>>
  /\ UNCHANGED <<custom_ops, heap, made, thread_vars>>

(* ------------------------------------------------------------------ *)
(* The inputs                                                           *)
(* ------------------------------------------------------------------ *)

Var(key) == Node1(OpVar, Str(key))

K_age == <<"a", "g", "e">>
K_tags == <<"t", "a", "g", "s">>
K_city == <<"c", "i", "t", "y">>
K_k == <<"k">>
K_cf == <<"c", "f">>
K_123 == <<"1", "2", "3">>
K_number == <<"n", "u", "m", "b", "e", "r">>
K_dotted == <<"c", "f", ".", "1", "2", "3", ".", "n", "u", "m", "b", "e", "r">>
K_nokey == <<"n", "o", "k", "e", "y">>
K_zzz == <<"z", "z", "z">>
S_vip == <<"v", "i", "p">>
S_admin == <<"a", "d", "m", "i", "n">>
S_abc == <<"a", "b", "c">>
S_NYC == <<"N", "Y", "C">>
OpProbe == <<"p", "r", "o", "b", "e">>

\* All sequences over S of length at most n.
RECURSIVE SeqsUpTo(_, _)
SeqsUpTo(S, n) ==
  IF n = 0 THEN {<<>>}
  ELSE LET shorter == SeqsUpTo(S, n - 1)
       IN shorter \cup {Append(q, x) : q \in {t \in shorter : Len(t) = n - 1}, x \in S}

\* The records of the token and literal rules.
Person == Dict(<<K_age, K_city>>, <<IntV(25), Str(S_NYC)>>)
BasicRecords == {EmptyDict, Person}

\* Operand lists for every token: none, too few, non-numeric, a zero divisor,
\* a haystack that is no container, a list.
OperandLists ==
  { <<>>,
    <<IntV(1)>>,
    <<Str(S_abc)>>,
    <<IntV(1), IntV(0)>>,
    <<Str(S_abc), IntV(2)>>,
    <<IntV(5), IntV(2), IntV(7)>>,
    <<List(<<>>)>>,
    <<Var(K_age), List(<<IntV(25), Str(S_abc)>>)>> }
TokenRules == {Node(t, ol) : t \in Tokens, ol \in OperandLists}

\* Values that do not have the single-key-operator shape.
NonMappings ==
  { Null, PyTrue, PyFalse, IntV(0), IntV(5), Float(5, 2), Str(<<>>), Str(S_abc),
    EmptyList, List(<<IntV(1), Var(K_age)>>) }
MultiKeyMappings ==
  { Dict(<<<<"a">>, <<"b">>>>, <<IntV(1), IntV(2)>>),
    Dict(<<K_city, K_age>>, <<Str(S_NYC), IntV(25)>>),
    Dict(<<OpVar, <<"x">>>>, <<Str(K_age), IntV(1)>>),
    Dict(<<<<"x">>, OpVar>>, <<IntV(1), Str(K_age)>>) }
UnknownKeyMappings ==
  { Node1(K_zzz, IntV(1)), Node1(K_city, Str(S_NYC)), Node(K_zzz, <<Var(K_age)>>),
    Node1(K_age, EmptyDict) }
LiteralRules == NonMappings \cup MultiKeyMappings \cup UnknownKeyMappings \cup {EmptyDict}

\* The longest array a quantifier iterates.
MaxLen == 2
Quantifiers == {OpSome, OpAll, OpNone}
Items ==
  { Str(S_vip), Str(<<"x">>), IntV(0), IntV(2), Dict(<<K_age>>, <<IntV(25)>>) }
Arrays == {List(q) : q \in SeqsUpTo(Items, MaxLen)}
\* What `tags` holds when it is not a sequence.
NonSequences == {Null, Str(S_vip), IntV(5), Dict(<<K_age>>, <<IntV(1)>>)}
Conditions ==
  { Node(OpIn, <<Var(<<>>), List(<<Str(S_vip), Str(S_admin)>>)>>),
    Var(<<>>),
    Var(K_age),
    Node(OpGt, <<Var(<<>>), IntV(1)>>),
    Node(OpAdd, <<Var(<<>>)>>) }
\* A record whose own `age` differs from every item's.
Tagged(tags) == Dict(<<K_tags, K_age>>, <<tags, IntV(0)>>)
QuantInputs ==
  {<<Node(q, <<Var(K_tags), c>>), Tagged(a)>> :
     q \in Quantifiers, c \in Conditions, a \in Arrays \cup NonSequences}
  \cup {<<Node(q, <<a, c>>), EmptyDict>> :
     q \in Quantifiers, c \in {Var(<<>>)}, a \in {EmptyList, List(<<IntV(0), IntV(2)>>)}}
  \cup {<<Node(q, <<Node(OpProbe, <<Var(K_tags)>>), Node(OpProbe, <<Var(<<>>)>>)>>), Tagged(a)>> :
     q \in Quantifiers, a \in Arrays \cup NonSequences}

\* The most operands of an `if`.
MaxIf == 4
\* Operand i of an `if`: a probe that yields b and tells its position.
ProbeAt(b, i) == Node(OpProbe, <<Bool(b), IntV(i)>>)
IfOperands == {[i \in 1..Len(bs) |-> ProbeAt(bs[i], i)] : bs \in SeqsUpTo(BOOLEAN, MaxIf)}
IfRules ==
  {Node(OpIf, os) : os \in IfOperands}
  \cup { Node(OpIf, <<PyTrue, Str(S_vip), Str(S_abc)>>),
         Node(OpIf, <<Var(K_age), Var(K_city), Node(OpMin, <<>>)>>),
         Node(OpIf, <<IntV(0), Node(OpMin, <<>>), Str(<<>>), IntV(1), Var(K_age)>>),
         Node1(OpIf, Var(K_age)) }

\* `var` nodes: no operand, a key, a key and a default, a computed key, keys
\* that are not strings.
VarRules ==
  { Node(OpVar, <<>>),
    Var(K_age), Var(<<>>), Node1(OpVar, Null), Var(K_nokey), Var(K_dotted), Var(K_k),
    Node(OpVar, <<Str(K_age), IntV(7)>>),
    Node(OpVar, <<Str(K_nokey), IntV(7)>>),
    Node(OpVar, <<Str(K_nokey), Var(K_age)>>),
    Node(OpVar, <<Str(K_dotted), IntV(7)>>),
    Node(OpVar, <<Var(K_k)>>),
    Node(OpVar, <<Var(K_k), Str(S_abc)>>),
    Node1(OpVar, IntV(1)),
    Node(OpVar, <<PyTrue, IntV(7)>>),
    Node(OpVar, <<List(<<>>)>>),
    Node(OpVar, <<List(<<Str(K_age)>>), IntV(7)>>),
    Node(OpVar, <<Var(<<>>)>>) }
VarRecords ==
  { EmptyDict, Person,
    Dict(<<K_age, K_k>>, <<Null, Str(K_age)>>),
    Dict(<<K_dotted, K_cf>>, <<IntV(5), Dict(<<K_123>>, <<Dict(<<K_number>>, <<IntV(9)>>)>>)>>),
    Dict(<<K_cf>>, <<Dict(<<K_123>>, <<Dict(<<K_number>>, <<IntV(9)>>)>>)>>),
    IntV(5), Str(K_age), List(<<IntV(1)>>) }

\* Divisions and remainders by the values that are numerically zero.
Zeros == {IntV(0), Float(0, 1), Str(<<"0">>), PyFalse}
DivRules ==
  {Node(t, <<a, z>>) : t \in {OpDiv, OpMod},
                       a \in {IntV(1), IntV(0), Float(5, 2), Str(S_abc), Null}, z \in Zeros}

\* Nodes whose later operands are probes: logic, arithmetic, a string
\* operator, a comparison and the probe itself, after a first operand that
\* is true or false.
EagerRules ==
  {Node(t, <<Bool(b), ProbeAt(b2, 2), ProbeAt(b3, 3)>>) :
     t \in {OpAnd, OpOr, OpAdd, OpCat, OpEq, OpProbe}, b \in BOOLEAN, b2 \in BOOLEAN,
     b3 \in BOOLEAN}

\* Quantifier nodes of zero, one and three operands, and with an operand that
\* is no list: operands that probe, that raise when evaluated, and literals.
ArityOperands ==
  { <<>>,
    <<ProbeAt(TRUE, 1)>>,
    <<List(<<IntV(0), IntV(2)>>)>>,
    <<ProbeAt(TRUE, 1), ProbeAt(FALSE, 2), ProbeAt(TRUE, 3)>>,
    <<Node(OpMin, <<>>), Var(<<>>), ProbeAt(TRUE, 3)>>,
    <<List(<<IntV(0), IntV(2)>>), Var(<<>>), Var(<<>>)>> }
BareOperands ==
  { ProbeAt(TRUE, 1), Node(OpMin, <<>>), Null, Str(S_vip), IntV(2), EmptyDict }
ArityRules ==
  {Node(q, ol) : q \in Quantifiers, ol \in ArityOperands}
  \cup {Node1(q, x) : q \in Quantifiers, x \in BareOperands}
ArityRecords == BasicRecords \cup {Null, IntV(5), List(<<IntV(0), IntV(2)>>)}

\* The calls of the general specification: <<rules, data>>.
Inputs ==
  (TokenRules \X BasicRecords)
  \cup (ArityRules \X ArityRecords)
  \cup (EagerRules \X {Person})
  \cup (DivRules \X {EmptyDict})
  \cup (LiteralRules \X BasicRecords)
  \cup QuantInputs
  \cup (IfRules \X BasicRecords)
  \cup (VarRules \X VarRecords)

\* The longest collection batch and filter are given.
MaxBatch == 3
\* Evaluatable objects: three contacts, two of them with the same fields,
\* and one whose age is no number.
Contacts ==
  { Obj(1, Dict(<<K_age, K_city>>, <<IntV(25), Str(S_NYC)>>)),
    Obj(2, Dict(<<K_age, K_city>>, <<IntV(0), Str(S_abc)>>)),
    Obj(3, Dict(<<K_age, K_city>>, <<IntV(25), Str(S_NYC)>>)),
    Obj(4, Dict(<<K_age, K_city>>, <<Str(S_abc), Str(S_NYC)>>)) }
Collections == SeqsUpTo(Contacts, MaxBatch)
\* The rules of matches, test, batch and filter: JsonLogic and Rule objects,
\* one that probes, one that raises on a non-numeric age.
ObjectRules ==
  { Node(OpGt, <<Var(K_age), IntV(18)>>),
    Var(K_age),
    EmptyDict,
    Node(OpProbe, <<Var(K_age)>>),
    Node(OpAdd, <<Var(K_age)>>),
    RuleSet(LogicAnd, <<Leaf(Node(OpEq, <<Var(K_city), Str(S_NYC)>>)),
                        Leaf(Node(OpGt, <<Var(K_age), IntV(18)>>))>>) }

\* What callers register in the general specification.
Names == {OpProbe}
Funcs == {"first", "tagged", "between"}

Next ==
  \/ \E name \in Names, func \in Funcs : register_operator(name, func)
  \/ \E in \in Inputs : evaluate(in[1], in[2])
  \/ \E r \in ObjectRules, o \in Contacts : matches(r, to_eval_dict(o))
  \/ \E r \in ObjectRules, o \in Contacts, t0 \in 0..1, c \in 0..MaxTicks, e \in 0..MaxTicks :
       test(r, o, t0, c, e)
  \/ \E r \in ObjectRules, os \in Collections : batch(r, os)
  \/ \E r \in ObjectRules, os \in Collections : filter(r, os)
  \/ Return

Spec == Init /\ [][Next]_vars

\* Every value the evaluator produced is one the model represents.
NoUnmodelled == result # Unmodelled

(* ------------------------------------------------------------------ *)
(* Registering over the standard tokens                                 *)
(* ------------------------------------------------------------------ *)

\* Callers register every standard token in turn, and evaluate a node of
\* every token.
OverrideNames == Tokens
OverrideFuncs == {"tagged", "first"}
OverrideOperands == {<<IntV(3), IntV(4)>>, <<Var(K_age), List(<<IntV(25)>>)>>}
OverrideRules == {Node(t, ol) : t \in Tokens, ol \in OverrideOperands}

NextOverride ==
  \/ \E name \in OverrideNames, func \in OverrideFuncs : register_operator(name, func)
  \/ \E r \in OverrideRules : evaluate(r, Person)
  \/ Return

SpecOverride == Init /\ [][NextOverride]_vars

(* ------------------------------------------------------------------ *)
(* Comparing pairs of values                                            *)
(* ------------------------------------------------------------------ *)

S_25 == <<"2", "5">>
\* A record with a number and a mapping.
Measured == Dict(<<K_age, K_cf>>, <<IntV(25), Dict(<<K_k>>, <<IntV(1)>>)>>)
\* The operand expressions compared, two of them `var` lookups.
CompareOperands ==
  { Null, PyTrue, PyFalse, IntV(0), IntV(1), IntV(25), IntV(-3), Float(5, 2), Float(25, 1),
    Str(S_25), Str(<<"1">>), Str(<<"0">>), Str(<<" ", "2", "5", " ">>), Str(<<"2", ".", "5">>),
    Str(<<"1", "0">>), Str(<<"9">>), Str(<<>>), Str(<<"a">>), Str(<<"b">>), Str(S_abc),
    Str(<<"T", "r", "u", "e">>), Str(<<"N", "o", "n", "e">>),
    EmptyList, List(<<IntV(1)>>), Var(K_age), Var(K_cf) }
EqTokens == {OpEq, OpNe, OpStrictEq, OpStrictNe}
OrderTokens == {OpGt, OpGe, OpLt, OpLe}
CompareRules ==
  {Node(t, <<x, y>>) : t \in EqTokens \cup OrderTokens, x \in CompareOperands, y \in CompareOperands}

NextCompare ==
  \/ \E r \in CompareRules : evaluate(r, Measured)
  \/ Return

SpecCompare == Init /\ [][NextCompare]_vars

(* ------------------------------------------------------------------ *)
(* Merging Dependencies                                                 *)
(* ------------------------------------------------------------------ *)

\* The engine's part of the state.
engine_vars == <<custom_ops, entry, rules, data, result, calls, consulted, timeline>>

\* The most objects of core.py that exist.
MaxHeap == 4

\* Dependencies values: every choice of the four sets within one field name
\* and one id of each kind.
DepsValues ==
  {Dependencies(f, t, p, c) :
     f \in SUBSET {"age"}, t \in SUBSET {1}, p \in SUBSET {2}, c \in SUBSET {3}}

\* Three Dependencies objects exist; the engine is as constructed.
InitDeps ==
  /\ custom_ops = {}
  /\ entry = "idle"
  /\ rules = Null
  /\ data = Null
  /\ result = Null
  /\ calls = <<>>
  /\ consulted = <<>>
  /\ timeline = <<>>
  /\ heap \in [1..3 -> DepsValues]
  /\ made = NoCall
  /\ default_engine = 0
  /\ threads = [t \in Threads |-> Idle]
  /\ frames = [t \in Threads |-> <<>>]

\* Dependencies()
new_dependencies ==
  /\ Len(heap) < MaxHeap
  /\ heap' = Append(heap, NewDependencies)
  /\ made' = [op |-> "Dependencies", out |-> Len(heap) + 1]
  /\ UNCHANGED <<engine_vars, thread_vars>>

\* heap[self].merge(heap[other]): `merged` is a new object
call_merge(self, other) ==
  /\ Len(heap) < MaxHeap
  /\ heap' = Append(heap, merge(heap[self], heap[other]))
  /\ made' = [op |-> "merge", self |-> self, other |-> other, out |-> Len(heap) + 1]
  /\ UNCHANGED <<engine_vars, thread_vars>>

NextDeps ==
  \/ new_dependencies
  \/ \E self \in 1..Len(heap), other \in 1..Len(heap) : call_merge(self, other)

SpecDeps == InitDeps /\ [][NextDeps]_vars

(* ------------------------------------------------------------------ *)
(* Building rules and evaluating them                                   *)
(* ------------------------------------------------------------------ *)

\* Two leaf rules exist; the engine is as constructed.
LeafRules ==
  <<Leaf(Node(OpEq, <<Var(K_city), Str(S_NYC)>>)), Leaf(Node(OpProbe, <<Var(K_age)>>))>>
InitRules ==
  /\ custom_ops = {}
  /\ entry = "idle"
  /\ rules = Null
  /\ data = Null
  /\ result = Null
  /\ calls = <<>>
  /\ consulted = <<>>
  /\ timeline = <<>>
  /\ heap = LeafRules
  /\ made = NoCall
  /\ default_engine = 0
  /\ threads = [t \in Threads |-> Idle]
  /\ frames = [t \in Threads |-> <<>>]

\* The object a call of core.py returns is a new one.
Made(op, self, other, out) ==
  /\ entry = "idle"
  /\ Len(heap) < MaxHeap
  /\ heap' = Append(heap, out)
  /\ made' = [op |-> op, self |-> self, other |-> other, out |-> Len(heap) + 1]
  /\ UNCHANGED <<engine_vars, thread_vars>>

\* RuleSet(logic, children), the children being objects that exist
new_ruleset(logic, children) ==
  Made("RuleSet", 0, 0, RuleSet(logic, [i \in 1..Len(children) |-> heap[children[i]]]))
\* heap[self] & heap[other]
call_and(self, other) == Made("and", self, other, rule_and(heap[self], heap[other]))
\* heap[self] | heap[other]
call_or(self, other) == Made("or", self, other, rule_or(heap[self], heap[other]))
\* ~heap[self]
call_invert(self) == Made("invert", self, 0, rule_invert(heap[self]))

\* The rule built last, which the caller hands to the engine.
Latest == heap[Len(heap)]
\* The records and objects the rules are evaluated on.
RuleRecords == {Person, Dict(<<K_age, K_city>>, <<IntV(0), Str(S_abc)>>)}
RuleContacts == <<Obj(1, Person), Obj(2, Dict(<<K_age, K_city>>, <<IntV(0), Str(S_abc)>>))>>

NextRules ==
  \/ \E logic \in {LogicAnd, LogicOr, LogicNot}, children \in SeqsUpTo(1..Len(heap), 1) :
       new_ruleset(logic, children)
  \/ \E self \in 1..Len(heap), other \in 1..Len(heap) : call_and(self, other)
  \/ \E self \in 1..Len(heap), other \in 1..Len(heap) : call_or(self, other)
  \/ \E self \in 1..Len(heap) : call_invert(self)
  \/ \E func \in {"first", "tagged"} : register_operator(OpProbe, func)
  \/ \E d \in RuleRecords : evaluate(Latest, d)
  \/ matches(Latest, Person)
  \/ test(Latest, RuleContacts[2], 0, 1, 1)
  \/ batch(Latest, RuleContacts)
  \/ filter(Latest, RuleContacts)
  \/ Return

SpecRules == InitRules /\ [][NextRules]_vars

(* ------------------------------------------------------------------ *)
(* Threads calling one engine, and the module-level helpers             *)
(* ------------------------------------------------------------------ *)

\* A faulty engine, which gathers the values of every call in one place.
shared_slot(t) == 1

\* Where the call of thread t keeps `values`, `matches` and `non_matches`:
\* they are local variables, so each call has a frame of its own.
Slot(t) == t

\* The registry of an engine: that of the shared instance (engine 0), or
\* the empty one of an engine the module-level helpers created (named by
\* the number of the thread that made it).
Registry(engine) == IF engine = 0 THEN custom_ops ELSE {}

\* The last lines of _eval: the registry first, else the standard table.
dispatch(op, values, record, ops) ==
  IF IsCustom(op, ops) THEN CallCustom(Lookup(ops, op), values, record)
  ELSE apply_op(op, values)

\* A call: through the shared instance ("engine") or the module-level
\* helpers ("module"), of an entry point, with a rule and its argument.
Call(via, kind, r, arg) == [via |-> via, kind |-> kind, rules |-> r, arg |-> arg]

\* The record a call evaluates its rule on.
RecordOf(call) == IF call.kind = "test" THEN to_eval_dict(call.arg) ELSE call.arg

\* The evaluations a call makes one after the other, as <<rule, record>>:
\* batch and filter evaluate the rule on each object; the others evaluate
\* the operands of their node before the dispatch.
Work(call) ==
  IF call.kind \in {"batch", "filter"}
  THEN [i \in 1..Len(call.arg) |-> <<ToWire(call.rules), to_eval_dict(call.arg[i])>>]
  ELSE [i \in 1..Len(Operands(ToWire(call.rules).vals[1])) |->
          <<Operands(ToWire(call.rules).vals[1])[i], RecordOf(call)>>]

\* The objects at the positions of the truthy (hit = TRUE) or the other
\* values.
Chosen(objects, values, hit) ==
  SelectSeq([i \in 1..Len(objects) |-> <<objects[i], Truthy(values[i])>>],
            LAMBDA p : p[2] = hit)

\* What a call returns once its evaluations gave the values.
Outcome17(call, values, ops) ==
  IF call.kind = "batch"
    THEN BatchResult([i \in 1..Len(Chosen(call.arg, values, TRUE)) |->
                        Chosen(call.arg, values, TRUE)[i][1]],
                     [i \in 1..Len(Chosen(call.arg, values, FALSE)) |->
                        Chosen(call.arg, values, FALSE)[i][1]])
  ELSE IF call.kind = "filter"
    THEN List([i \in 1..Len(Chosen(call.arg, values, TRUE)) |->
                 Chosen(call.arg, values, TRUE)[i][1]])
  ELSE IF call.kind = "evaluate"
    THEN dispatch(ToWire(call.rules).keys[1], values, RecordOf(call), ops)
  ELSE PyBool(dispatch(ToWire(call.rules).keys[1], values, RecordOf(call), ops))

\* Thread t is at pc of its call.
At17(t, pc) == threads[t].pc = pc
Goto(t, pc) == threads' = [threads EXCEPT ![t].pc = pc]

\* Thread t enters a call: through the helpers it first looks at
\* _default_engine, on the shared instance it starts evaluating.
begin(t, call) ==
  /\ At17(t, "idle")
  /\ threads' = [threads EXCEPT ![t] =
                   [pc |-> IF call.via = "module" THEN "check" ELSE "work",
                    call |-> call, engine |-> 0, out |-> Null]]
  /\ frames' = [frames EXCEPT ![Slot(t)] = <<>>]
  /\ UNCHANGED <<engine_vars, heap, made, default_engine>>

\* if _default_engine is None:
check(t) ==
  /\ At17(t, "check")
  /\ Goto(t, IF default_engine = 0 THEN "create" ELSE "load")
  /\ UNCHANGED <<engine_vars, heap, made, default_engine, frames>>

\* _default_engine = RuleEngine(): a new engine, named after its creator
create(t) ==
  /\ At17(t, "create")
  /\ default_engine' = t
  /\ Goto(t, "load")
  /\ UNCHANGED <<engine_vars, heap, made, frames>>

\* return _default_engine.evaluate(...): the global is read again
load(t) ==
  /\ At17(t, "load")
  /\ threads' = [threads EXCEPT ![t].engine = default_engine, ![t].pc = "work"]
  /\ UNCHANGED <<engine_vars, heap, made, default_engine, frames>>

\* The next evaluation of the call gave the value r, or raised it.
Gathered(t, r) ==
  IF IsExc(r)
  THEN /\ threads' = [threads EXCEPT ![t].pc = "done", ![t].out = r]
       /\ UNCHANGED frames
  ELSE /\ frames' = [frames EXCEPT ![Slot(t)] = Append(@, r)]
       /\ UNCHANGED threads

\* Thread t makes the next evaluation of its call, reading the registry.
work(t) ==
  /\ At17(t, "work")
  /\ Len(frames[Slot(t)]) < Len(Work(threads[t].call))
  /\ Gathered(t, eval(Work(threads[t].call)[Len(frames[Slot(t)]) + 1][1],
                       Work(threads[t].call)[Len(frames[Slot(t)]) + 1][2],
                       Registry(threads[t].engine)).v)
  /\ UNCHANGED <<engine_vars, heap, made, default_engine>>

\* Thread t has made its evaluations, and returns.
finish(t) ==
  /\ At17(t, "work")
  /\ Len(frames[Slot(t)]) >= Len(Work(threads[t].call))
  /\ threads' = [threads EXCEPT
                   ![t].pc = "done",
                   ![t].out = Outcome17(threads[t].call,
                                        SubSeq(frames[Slot(t)], 1, Len(Work(threads[t].call))),
                                        Registry(threads[t].engine))]
  /\ UNCHANGED <<engine_vars, heap, made, default_engine, frames>>

\* The caller of thread t takes the result.
take(t) ==
  /\ At17(t, "done")
  /\ threads' = [threads EXCEPT ![t] = Idle]
  /\ UNCHANGED <<engine_vars, heap, made, default_engine, frames>>

\* A registration, made while no call is in flight.
register_before(name, func) ==
  /\ \A t \in Threads : At17(t, "idle")
  /\ register_operator(name, func)

\* The rule and the objects of the concurrent calls.
ThreadRule ==
  Node(OpAnd, <<Node(OpGt, <<Var(K_age), IntV(18)>>), Node(OpProbe, <<Var(K_city)>>)>>)
ThreadCalls ==
  {Call(via, kind, ThreadRule, Person) :
     via \in {"engine", "module"}, kind \in {"evaluate", "matches"}}
  \cup {Call("engine", "test", ThreadRule, RuleContacts[2])}
  \cup {Call("engine", kind, Node(OpProbe, <<Var(K_age)>>), RuleContacts) :
          kind \in {"batch", "filter"}}

NextThreads ==
  \/ register_before(OpProbe, "first")
  \/ \E t \in Threads, call \in ThreadCalls : begin(t, call)
  \/ \E t \in Threads : check(t)
  \/ \E t \in Threads : create(t)
  \/ \E t \in Threads : load(t)
  \/ \E t \in Threads : work(t)
  \/ \E t \in Threads : finish(t)
  \/ \E t \in Threads : take(t)

SpecThreads == Init /\ [][NextThreads]_vars

(* ------------------------------------------------------------------ *)
(* The claims                                                           *)
(* ------------------------------------------------------------------ *)

\* An evaluate call has returned (or raised).
Evaluated == entry = "evaluate"
\* A mapping with exactly one key.
IsNode(r) == IsDict(r) /\ Len(r.keys) = 1
\* The operator and the normalized operands of a node.
OpOf(r) == r.keys[1]
OperandsOf(r) == Operands(r.vals[1])
\* The value operand i of the evaluated node gives against record d.
ValueOf(i, d) == eval(OperandsOf(rules)[i], d, custom_ops).v

\* C1: with an empty registry, evaluate never raises: whatever the rule and
\* the record, it returns a value.
C1_NeverRaises == (Evaluated /\ custom_ops = {}) => ~IsExc(result)

\* C2: a node of any operator token with an empty operand list evaluates to
\* true, on every record.
C2_EmptyOperandsTrue ==
  (Evaluated /\ IsNode(rules) /\ OpOf(rules) \in Tokens
     /\ OpOf(rules) \notin Registered(custom_ops) /\ OperandsOf(rules) = <<>>)
  => result = PyTrue

\* A quantifier node with exactly two operands.
IsQuantifierNode(r) == IsNode(r) /\ OpOf(r) \in Quantifiers /\ Len(OperandsOf(r)) = 2

\* C3: a two-operand quantifier whose array expression evaluates to the empty
\* sequence returns false for some, true for all, true for none.
C3_EmptySequence ==
  (Evaluated /\ IsQuantifierNode(rules) /\ ValueOf(1, data) = EmptyList)
  => result = Bool(OpOf(rules) # OpSome)

\* The array a quantifier iterates, with the invocations its evaluation made.
ArrayOf(r, d, ops) == eval(OperandsOf(r)[1], d, ops)
\* Whether the condition of the evaluated quantifier gives a truthy result on
\* item as the current record.
HoldsOn(item) ==
  LET r == eval(OperandsOf(rules)[2], item, custom_ops).v
  IN ~IsExc(r) /\ Truthy(r)

\* C4: a two-operand quantifier evaluates its array expression once, against
\* the current record; on a value that is no sequence `none` is true and
\* `some`, `all` are false; on a non-empty sequence the condition is evaluated
\* with each item as the current record, and `some` is true iff it holds on
\* some item, `all` iff on every item, `none` iff on no item.  Stated of the
\* evaluations that return a value.
C4_Quantifier ==
  (Evaluated /\ IsQuantifierNode(rules) /\ ~IsExc(result)) =>
    LET arr == ArrayOf(rules, data, custom_ops)
        n == Len(arr.calls)
    IN /\ Len(calls) >= n
       /\ SubSeq(calls, 1, n) = arr.calls
       /\ ~IsList(arr.v) => result = Bool(OpOf(rules) = OpNone) /\ calls = arr.calls
       /\ (IsList(arr.v) /\ arr.v.items # <<>>) =>
            LET items == arr.v.items
                idx == 1..Len(items)
            IN /\ result = Bool(CASE OpOf(rules) = OpSome -> \E i \in idx : HoldsOn(items[i])
                                  [] OpOf(rules) = OpAll -> \A i \in idx : HoldsOn(items[i])
                                  [] OpOf(rules) = OpNone -> \A i \in idx : ~HoldsOn(items[i]))
               /\ \A j \in (n + 1)..Len(calls) :
                    \E i \in idx : calls[j].data = items[i] /\ calls[j].data # data

\* C4's case: `all` over two items with a probed array and a probed condition,
\* three invocations made and every item holding.
C4_Witness ==
  /\ Evaluated
  /\ IsQuantifierNode(rules)
  /\ OpOf(rules) = OpAll
  /\ custom_ops = {<<OpProbe, "first">>}
  /\ Len(calls) = 3
  /\ calls[1].data = data
  /\ calls[2].data = Str(S_vip)
  /\ result = PyTrue

\* An `if` node.
IsIfNode(r) == IsNode(r) /\ OpOf(r) = OpIf
\* The positions of the conditions among n operands (counted from 1): the
\* odd ones before the last.
IfConds(n) == {i \in 1..n : i % 2 = 1 /\ i < n}
\* The conditions of the evaluated `if` that are truthy.
IfTruthy == {i \in IfConds(Len(OperandsOf(rules))) : Truthy(ValueOf(i, data))}
\* The positions `if` is to evaluate: the conditions up to the first truthy
\* one and its value, or every condition and an odd trailing operand.
IfToEvaluate ==
  LET n == Len(OperandsOf(rules))
  IN IF IfTruthy # {}
     THEN LET first == CHOOSE i \in IfTruthy : \A j \in IfTruthy : i <= j
          IN {i \in IfConds(n) : i <= first} \cup {first + 1}
     ELSE IfConds(n) \cup (IF n % 2 = 1 THEN {n} ELSE {})
RECURSIVE CallsOver(_)
\* The invocations made by evaluating the operands at positions S, in order.
CallsOver(S) ==
  IF S = {} THEN <<>>
  ELSE LET i == CHOOSE i \in S : \A j \in S : i <= j
       IN eval(OperandsOf(rules)[i], data, custom_ops).calls \o CallsOver(S \ {i})

\* C5: `if` tests its conditions in order and returns the value paired with
\* the first truthy one, or else the trailing operand of an odd count, or else
\* null; it evaluates no other value operand and no later condition: the
\* custom operators invoked are exactly those of the operands it is to
\* evaluate.  Stated of conditions that give a value.
C5_IfShortCircuit ==
  (Evaluated /\ IsIfNode(rules)
     /\ \A i \in IfConds(Len(OperandsOf(rules))) : ~IsExc(ValueOf(i, data))) =>
    LET n == Len(OperandsOf(rules))
        last == CHOOSE i \in IfToEvaluate : \A j \in IfToEvaluate : j <= i
    IN /\ result = IF IfTruthy = {} /\ n % 2 = 0 THEN Null ELSE ValueOf(last, data)
       /\ calls = CallsOver(IfToEvaluate)

\* C5's case: the first condition falsy, the second truthy, and of the four
\* probes only the first, the third and the fourth invoked.
C5_Witness ==
  /\ Evaluated
  /\ custom_ops = {<<OpProbe, "first">>}
  /\ rules = Node(OpIf, <<ProbeAt(FALSE, 1), ProbeAt(TRUE, 2), ProbeAt(TRUE, 3), ProbeAt(FALSE, 4)>>)
  /\ result = PyFalse
  /\ [j \in 1..Len(calls) |-> calls[j].values[2]] = <<IntV(1), IntV(3), IntV(4)>>

\* The values of the operands of the evaluated node.
ValuesOf(d) == [i \in 1..Len(OperandsOf(rules)) |-> ValueOf(i, d)]
\* A node of token set toks that is registered: the result is the registered
\* function's, on the operand values and the record.
Overrides(toks) ==
  (Evaluated /\ IsNode(rules) /\ OpOf(rules) \in toks /\ OpOf(rules) \in Registered(custom_ops)) =>
    /\ result = CallCustom(Lookup(custom_ops, OpOf(rules)), ValuesOf(data), data)
    /\ calls # <<>>
    /\ calls[Len(calls)] = Invocation(OpOf(rules), ValuesOf(data), data)

\* C6 as stated: for every token of the vocabulary, once the token is
\* registered a node of that token returns the registered function's result.
C6_OverrideEveryToken == Overrides(Tokens)

\* C6 amended: for every token other than var, some, all, none and if, once
\* the token is registered a node of that token returns the registered
\* function's result; those five are dispatched before the registry is read.
C6_OverrideStandard == Overrides(Tokens \ ControlTokens)

\* C6's case: `and` registered, and a node of `and` answered by the function.
C6_Witness ==
  /\ Evaluated
  /\ custom_ops = {<<OpAnd, "tagged">>}
  /\ rules = Node(OpAnd, <<IntV(3), IntV(4)>>)
  /\ result = Str(<<"c", "u", "s", "t", "o", "m">>)

\* The inputs C7 calls literal: a non-mapping, a mapping of several keys, a
\* mapping whose one key is neither a token nor a registered name.
IsLiteralInput(r, ops) ==
  \/ ~IsDict(r)
  \/ Len(r.keys) > 1
  \/ IsNode(r) /\ OpOf(r) \notin Tokens /\ OpOf(r) \notin Registered(ops)

\* C7: an input without the single-key-operator shape evaluates to itself.
C7_LiteralUnchanged == (Evaluated /\ IsLiteralInput(rules, custom_ops)) => result = rules

\* A node of one of the tokens toks with two operands, both giving a value.
IsBinary(r, toks) ==
  /\ IsNode(r)
  /\ OpOf(r) \in toks
  /\ Len(OperandsOf(r)) = 2
  /\ ~IsExc(eval(OperandsOf(r)[1], data, custom_ops).v)
  /\ ~IsExc(eval(OperandsOf(r)[2], data, custom_ops).v)
\* The node of token op on the operands of the evaluated node, swapped or not.
Same(op) == Node(op, OperandsOf(rules))
Swapped(op) == Node(op, <<OperandsOf(rules)[2], OperandsOf(rules)[1]>>)
\* Whether it evaluates to true on the record.
IsTrue(r) == eval(r, data, custom_ops).v = PyTrue

\* A number: an int or a float, and a bool too when bools says so.
IsNumeric(v, bools) == v.k \in {"int", "float"} \/ (bools /\ v.k = "bool")
\* The string s parses to a number equal to n.
ParsesTo(s, n) == ~IsExc(ParseFloat(s.s)) /\ NumEq(ParseFloat(s.s), n)
\* Soft equality as C8 words it.
SoftClaimed(a, b, bools) ==
  IF a = Null \/ b = Null THEN a = Null /\ b = Null
  ELSE IF IsStr(a) /\ IsNumeric(b, bools) THEN ParsesTo(a, b)
  ELSE IF IsStr(b) /\ IsNumeric(a, bools) THEN ParsesTo(b, a)
  ELSE PyEq(a, b)
\* C8 over the evaluated equality node.
EqualityClaim(bools) ==
  (Evaluated /\ IsBinary(rules, EqTokens)) =>
    LET a == ValueOf(1, data)
        b == ValueOf(2, data)
        soft == SoftClaimed(a, b, bools)
        strict == TypeEq(a, b) /\ PyEq(a, b)
        op == OpOf(rules)
    IN /\ result = Bool(CASE op = OpEq -> soft
                          [] op = OpNe -> ~soft
                          [] op = OpStrictEq -> strict
                          [] op = OpStrictNe -> ~strict)
       /\ result = eval(Swapped(op), data, custom_ops).v
       /\ IsTrue(Same(OpNe)) = ~IsTrue(Same(OpEq))
       /\ IsTrue(Same(OpStrictNe)) = ~IsTrue(Same(OpStrictEq))

\* C8 as stated, a number being an int or a float: `==` is true iff both
\* operands are null, or one is a string and the other a number it parses to,
\* or otherwise the two are directly equal; it does not depend on the order
\* of the operands; `!=` negates it; `===` is true iff the operands have the
\* same type and are equal, and `!==` negates it.
C8_EqualityOfNumbers == EqualityClaim(FALSE)

\* C8 amended: the same, a boolean counting as a number (true as 1, false as
\* 0) when the other operand is a string.
C8_Equality == EqualityClaim(TRUE)

\* C8's case: the number 25 read from the record soft-equals the string "25".
C8_Witness ==
  /\ Evaluated
  /\ rules = Node(OpEq, <<Var(K_age), Str(S_25)>>)
  /\ data = Measured
  /\ result = PyTrue
  /\ ~IsTrue(Same(OpStrictEq))

\* a is less than b as C9 words it: numerically when both convert to
\* numbers, by their string forms otherwise.
LessClaimed(a, b) ==
  IF ~IsExc(ToFloat(a)) /\ ~IsExc(ToFloat(b)) THEN NumLess(ToFloat(a), ToFloat(b))
  ELSE StrLess(StrOf(a).s, StrOf(b).s)

\* C9: the ordering operators compare numerically when both operands convert
\* to numbers and compare the string forms otherwise; exactly one of a < b,
\* a > b, (a <= b and a >= b) holds; a < b holds iff b > a.
C9_Ordering ==
  (Evaluated /\ IsBinary(rules, OrderTokens)) =>
    LET a == ValueOf(1, data)
        b == ValueOf(2, data)
        op == OpOf(rules)
        lt == IsTrue(Same(OpLt))
        gt == IsTrue(Same(OpGt))
        both == IsTrue(Same(OpLe)) /\ IsTrue(Same(OpGe))
    IN /\ result = Bool(CASE op = OpLt -> LessClaimed(a, b)
                          [] op = OpGt -> LessClaimed(b, a)
                          [] op = OpLe -> ~LessClaimed(b, a)
                          [] op = OpGe -> ~LessClaimed(a, b))
       /\ Cardinality({x \in {"lt", "gt", "both"} :
                         \/ x = "lt" /\ lt
                         \/ x = "gt" /\ gt
                         \/ x = "both" /\ both}) = 1
       /\ lt = IsTrue(Swapped(OpGt))

\* C9's case: "b" > "a" by the string forms, neither converting to a number.
C9_Witness ==
  /\ Evaluated
  /\ rules = Node(OpGt, <<Str(<<"b">>), Str(<<"a">>)>>)
  /\ result = PyTrue

\* What C10 says `var` returns for its operands on a record, the key being
\* what the first operand evaluates to.
VarClaimed(operands, key, record) ==
  IF operands = <<>> THEN record
  ELSE IF key = Str(<<>>) \/ key = Null THEN record
  ELSE IF IsDict(record) /\ IsStr(key) /\ KeyIndex(record, key.s) # 0
    THEN record.vals[KeyIndex(record, key.s)]
  ELSE IF Len(operands) > 1 THEN operands[2] ELSE Null

\* C10: `var` returns the record for no operand or an empty or null key, the
\* record's entry for a key it holds, and the default otherwise.
C10_VarLookup ==
  (Evaluated /\ IsNode(rules) /\ OpOf(rules) = OpVar
     /\ (OperandsOf(rules) # <<>> => ~IsExc(ValueOf(1, data))))
  => result = VarClaimed(OperandsOf(rules),
                         IF OperandsOf(rules) = <<>> THEN Null ELSE ValueOf(1, data),
                         data)

\* Whether the value v is numerically zero.
IsZero(v) == ~IsExc(v) /\ ~IsExc(ToFloat(v)) /\ ToFloat(v).n = 0

\* C11: with a second operand that is numerically zero, {"/": [a, 0]} returns
\* 0 and {"%": [a, 0]} returns a value; neither raises.
C11_DivisionByZero ==
  (Evaluated /\ IsNode(rules) /\ OpOf(rules) \in {OpDiv, OpMod}
     /\ OpOf(rules) \notin Registered(custom_ops)
     /\ Len(OperandsOf(rules)) = 2 /\ IsZero(ValueOf(2, data)))
  => /\ ~IsExc(result)
     /\ OpOf(rules) = OpDiv => PyEq(result, IntV(0))


\* The objects of the sequence objects, in order, on whose record the rule
\* is truthy (hit = TRUE) or is not (hit = FALSE), under the registry ops.
RECURSIVE Passing(_, _, _, _)
Passing(rule, objects, ops, hit) ==
  IF objects = <<>> THEN <<>>
  ELSE LET rest == Passing(rule, Tail(objects), ops, hit)
           v == eval(ToWire(rule), to_eval_dict(Head(objects)), ops).v
       IN IF Truthy(v) = hit THEN <<Head(objects)>> \o rest ELSE rest

\* C12: a batch that returns puts every object, in input order, in 'matches'
\* when the rule matches its record and in 'non_matches' otherwise, calls
\* each object's to_eval_dict once and in input order, and filter returns
\* the 'matches' of batch.
C12_BatchPartition ==
  (entry \in {"batch", "filter"} /\ ~IsExc(result))
  => /\ consulted = data.items
     /\ entry = "batch" =>
          result = BatchResult(Passing(rules, data.items, custom_ops, TRUE),
                               Passing(rules, data.items, custom_ops, FALSE))
     /\ entry = "filter" => result = List(Passing(rules, data.items, custom_ops, TRUE))

\* A batch of three objects, two of which match, the third between them.
C12_Witness ==
  /\ entry = "batch" /\ ~IsExc(result)
  /\ Len(data.items) = 3
  /\ Len(result.matches) = 2 /\ Len(result.non_matches) = 1
  /\ result.non_matches[1] = data.items[2]
  /\ result.matches[1] # result.matches[2]


\* merge is associative and commutative on the objects that exist, and the
\* empty Dependencies is its identity.
MergeLaws ==
  \A a \in 1..Len(heap) :
    /\ merge(heap[a], NewDependencies) = heap[a]
    /\ \A b \in 1..Len(heap) :
         /\ merge(heap[a], heap[b]) = merge(heap[b], heap[a])
         /\ \A c \in 1..Len(heap) :
              merge(merge(heap[a], heap[b]), heap[c]) = merge(heap[a], merge(heap[b], heap[c]))

\* A call of merge makes one more object, whose four sets are the unions of
\* the operands' sets, and leaves every object that existed as it was.
MergeStep ==
  (made'.op = "merge" /\ heap' # heap)
  => /\ made'.out = Len(heap) + 1
     /\ Len(heap') = Len(heap) + 1
     /\ \A i \in 1..Len(heap) : heap'[i] = heap[i]
     /\ heap'[made'.out].fields = heap[made'.self].fields \cup heap[made'.other].fields
     /\ heap'[made'.out].tag_ids = heap[made'.self].tag_ids \cup heap[made'.other].tag_ids
     /\ heap'[made'.out].phonebook_ids
          = heap[made'.self].phonebook_ids \cup heap[made'.other].phonebook_ids
     /\ heap'[made'.out].custom_field_ids
          = heap[made'.self].custom_field_ids \cup heap[made'.other].custom_field_ids

\* C13: merge returns a new Dependencies whose four sets are the pairwise
\* unions of the operands' sets and leaves both operands unchanged; it is
\* associative and commutative, and the empty Dependencies is its identity.
C13_Merge == []MergeLaws /\ [][MergeStep]_vars

\* Two different objects, neither holding all of the four kinds, merged
\* into one that holds all of them.
C13_Witness ==
  /\ made.op = "merge"
  /\ heap[made.self] # heap[made.other]
  /\ heap[made.out] \notin {heap[made.self], heap[made.other]}
  /\ heap[made.out] = Dependencies({"age"}, {1}, {2}, {3})


\* The encoding of the RuleSet r is the canonical one of its children's
\* encodings.
Canonical(r) ==
  LET n == Len(r.rules)
      children == [j \in 1..n |-> to_json(r.rules[j])]
      token == IF r.logic = LogicAnd THEN <<"a", "n", "d">> ELSE <<"o", "r">>
  IN IF r.logic = LogicNot
     THEN /\ n = 0 => to_json(r) = Dict(<<>>, <<>>)
          /\ n = 1 => to_json(r) = Dict(<<<<"!">>>>, <<children[1]>>)
     ELSE /\ n = 0 => to_json(r) = Dict(<<>>, <<>>)
          /\ n = 1 => to_json(r) = children[1]
          /\ n >= 2 => to_json(r) = Dict(<<token>>, <<List(children)>>)

\* C14: an AND/OR RuleSet encodes to {} without children, to its child's
\* encoding with one child and to {"and"|"or": [encodings in order]} with
\* more; a NOT RuleSet encodes to {"!": encoding} with one child and to {}
\* without; and a rule that encodes to {} evaluates to true on every record.
C14_CanonicalEncoding ==
  /\ \A i \in 1..Len(heap) : IsRuleSet(heap[i]) => Canonical(heap[i])
  /\ (Evaluated /\ IsRuleSet(rules) /\ rules.rules = <<>>) => result = PyTrue

\* A RuleSet without children was evaluated on the record that is not
\* Person, while a RuleSet of two children exists.
C14_Witness ==
  /\ Evaluated /\ IsRuleSet(rules) /\ rules.rules = <<>> /\ rules.logic = LogicOr
  /\ data # Person /\ result = PyTrue
  /\ \E i \in 1..Len(heap) :
       /\ IsRuleSet(heap[i]) /\ Len(heap[i].rules) = 2
       /\ to_json(heap[i]).keys = <<heap[i].logic>>


\* The logic of the combinator called last.
MadeLogic == IF made.op = "and" THEN LogicAnd ELSE LogicOr
\* Whether the rule r is a tree of the logic.
IsTree(r, logic) == IsRuleSet(r) /\ r.logic = logic

\* C15: `&` of two AND trees (and `|` of two OR trees) gives one node of
\* that logic whose operands are the left tree's followed by the right
\* tree's, neither tree staying nested; and `&` of an AND tree built from
\* rules that are no AND tree with one more such rule gives one AND node
\* with one operand more (likewise `|`).
C15_FlatMerge ==
  made.op \in {"and", "or"}
  => /\ (IsTree(heap[made.self], MadeLogic) /\ IsTree(heap[made.other], MadeLogic))
          => heap[made.out]
               = RuleSet(MadeLogic, heap[made.self].rules \o heap[made.other].rules)
     /\ (IsTree(heap[made.self], MadeLogic) /\ ~IsTree(heap[made.other], MadeLogic))
          => heap[made.out] = RuleSet(MadeLogic, Append(heap[made.self].rules, heap[made.other]))
     /\ (~IsTree(heap[made.self], MadeLogic) /\ ~IsTree(heap[made.other], MadeLogic))
          => heap[made.out] = RuleSet(MadeLogic, <<heap[made.self], heap[made.other]>>)


\* The registry holds one function per name, and the function of the last
\* registration under its name; register_operator returned the engine.
LastRegistrationWins ==
  /\ \A e1 \in custom_ops, e2 \in custom_ops : e1[1] = e2[1] => e1 = e2
  /\ made.op = "register_operator"
       => /\ <<made.name, made.func>> \in custom_ops
          /\ made.out = "self"

\* What a step leaves alone: only a registration changes the registry, and
\* then only the entry of its name; an entry point leaves the registry and
\* every rule object as they were and returns with the rule and the record
\* it was given; a combinator or constructor leaves every object that
\* existed, its operand list included, as it was.
FrameStep ==
  /\ custom_ops' # custom_ops
       => /\ made'.op = "register_operator"
          /\ entry' = entry /\ heap' = heap
          /\ {e \in custom_ops' : e[1] # made'.name} = {e \in custom_ops : e[1] # made'.name}
  /\ (entry = "idle" /\ entry' # "idle")
       => /\ custom_ops' = custom_ops /\ heap' = heap /\ made' = made
          /\ rules' = Latest
          /\ entry' \in {"evaluate", "matches"} => data' \in RuleRecords
          /\ entry' = "test" => data' \in {RuleContacts[i] : i \in 1..2}
          /\ entry' \in {"batch", "filter"} => data' = List(RuleContacts)
  /\ heap' # heap
       => /\ Len(heap') = Len(heap) + 1
          /\ \A i \in 1..Len(heap) : heap'[i] = heap[i]
          /\ custom_ops' = custom_ops

EventIndex(ev) ==
  IF \E i \in 1..Len(timeline) : timeline[i].ev = ev
  THEN CHOOSE i \in 1..Len(timeline) : timeline[i].ev = ev
  ELSE 0
\* The tick of the clock event ev.
EventTick(ev) == timeline[EventIndex(ev)].at

\* C18: test returns an EvalResult whose matches is bool(evaluate(rule,
\* record)) and whose eval_time_ms is the time of the evaluation only: the
\* clock starts after to_eval_dict has built the record and stops right
\* after the evaluation.
C18_TimesEvaluationOnly ==
  (entry = "test" /\ ~IsExc(result))
  => /\ result.matches = Truthy(eval(ToWire(rules), to_eval_dict(data), custom_ops).v)
     /\ EventIndex("to_eval_dict") < EventIndex("start")
     /\ EventIndex("_eval") < EventIndex("stop")
     /\ result.eval_time_ms
          = FMul(FSub(perf_counter(EventTick("stop")), perf_counter(EventTick("_eval"))),
                 Float(1000, 1))

\* The part of C18 about matches, which the code has.
TestMatches ==
  (entry = "test" /\ ~IsExc(result))
  => result.matches = Truthy(eval(ToWire(rules), to_eval_dict(data), custom_ops).v)


\* The values of all the operands of the evaluated node, in order.
AllValues == [i \in 1..Len(OperandsOf(rules)) |-> ValueOf(i, data)]
\* The invocation log of a quantifier whose array is `tags` and whose
\* condition is a probe of the item: a call per item consulted, each with
\* the item as its value and as its record.
ItemCalls ==
  \A i \in 1..Len(calls) :
    calls[i].op = OpProbe /\ calls[i].data # data
    => /\ \E j \in 1..Len(ArrayOf(rules, data, custom_ops).v.items) :
            calls[i].data = ArrayOf(rules, data, custom_ops).v.items[j]
       /\ calls[i].values = <<calls[i].data>>

\* C19: an operator other than var, some, all, none and if has each of its
\* operands evaluated once, left to right, against the record, whatever the
\* earlier values; `and` and `or` return whether all / any of the values are
\* truthy; a custom operator is invoked once, after its operands, with the
\* list of values and the record (the item, inside a quantifier condition),
\* and what it returns is the result.  Stated of operands that give a value.
C19_EagerOperands ==
  /\ (Evaluated /\ IsNode(rules) /\ OpOf(rules) \notin ControlTokens
        /\ \A i \in 1..Len(OperandsOf(rules)) : ~IsExc(ValueOf(i, data)))
     => IF OpOf(rules) \in Registered(custom_ops)
        THEN /\ calls = CallsOver(1..Len(OperandsOf(rules)))
                          \o <<Invocation(OpOf(rules), AllValues, data)>>
             /\ result = CallCustom(Lookup(custom_ops, OpOf(rules)), AllValues, data)
        ELSE /\ calls = CallsOver(1..Len(OperandsOf(rules)))
             /\ OpOf(rules) = OpAnd
                  => result = Bool(\A i \in 1..Len(AllValues) : Truthy(AllValues[i]))
             /\ OpOf(rules) = OpOr
                  => result = Bool(\E i \in 1..Len(AllValues) : Truthy(AllValues[i]))
  /\ (Evaluated /\ IsQuantifierNode(rules) /\ ~IsExc(result)
        /\ OperandsOf(rules)[2] = Node(OpProbe, <<Var(<<>>)>>)
        /\ IsList(ArrayOf(rules, data, custom_ops).v))
     => ItemCalls

\* An `and` whose first value is false, and both probes after it invoked.
C19_Witness ==
  /\ Evaluated /\ IsNode(rules) /\ OpOf(rules) = OpAnd
  /\ custom_ops = {<<OpProbe, "first">>}
  /\ Len(OperandsOf(rules)) = 3 /\ OperandsOf(rules)[1] = PyFalse
  /\ result = PyFalse
  /\ Len(calls) = 2 /\ calls[1].values[2] = IntV(2) /\ calls[2].values[2] = IntV(3)


\* Whether needle equals, by ==, an element of the haystack: an item of a
\* sequence or a key of a mapping; any other value has no element.
IsElement(needle, haystack) ==
  IF IsList(haystack) THEN \E i \in 1..Len(haystack.items) : PyEq(needle, haystack.items[i])
  ELSE IF IsDict(haystack) THEN IsStr(needle) /\ KeyIndex(haystack, needle.s) # 0
  ELSE FALSE

\* C20: `in` returns false on a null haystack, on a string haystack whether
\* the needle's string form is a case-insensitive substring of it, on any
\* other haystack whether the needle is one of its elements by direct
\* equality, and false with fewer than two operands.
C20_In ==
  (Evaluated /\ IsNode(rules) /\ OpOf(rules) = OpIn /\ OpIn \notin Registered(custom_ops)
     /\ \A i \in 1..Len(OperandsOf(rules)) : ~IsExc(ValueOf(i, data)))
  => IF Len(OperandsOf(rules)) < 2 THEN result = PyFalse
     ELSE IF ValueOf(2, data) = Null THEN result = PyFalse
     ELSE IF IsStr(ValueOf(2, data))
       THEN result = Bool(Contains(Lower(ValueOf(2, data).s), Lower(StrOf(ValueOf(1, data)).s)))
     ELSE result = Bool(IsElement(ValueOf(1, data), ValueOf(2, data)))


\* What the call returns when it runs alone on an engine with the registry
\* ops (of test, its EvalResult's matches).
Alone(call, ops) ==
  CASE call.kind = "evaluate" -> eval(ToWire(call.rules), call.arg, ops).v
    [] call.kind = "matches" -> run_matches(call.rules, call.arg, ops).v
    [] call.kind = "batch" -> run_batch(call.rules, call.arg, ops).v
    [] call.kind = "filter" -> run_filter(call.rules, call.arg, ops).v
    [] call.kind = "test" ->
         IF IsExc(run_test(call.rules, call.arg, ops, 0, 0, 0).v)
         THEN run_test(call.rules, call.arg, ops, 0, 0, 0).v
         ELSE Bool(run_test(call.rules, call.arg, ops, 0, 0, 0).v.matches)

\* C17: with the registrations made before, every call that threads make
\* concurrently on one engine returns what it returns when run alone, and
\* so does every call through the module-level helpers, whichever thread's
\* engine becomes the default one.
C17_CallsDoNotInterfere ==
  \A t \in Threads :
    At17(t, "done")
    => threads[t].out = Alone(threads[t].call, Registry(threads[t].engine))

\* Both threads found _default_engine None: the first returned from the
\* engine it made, which the second has replaced, while the second is in the
\* middle of a call on the shared instance.
C17_Witness ==
  /\ At17(1, "done") /\ threads[1].call.via = "module" /\ threads[1].engine = 1
  /\ default_engine = 2
  /\ At17(2, "work") /\ threads[2].call.kind = "batch" /\ Len(frames[Slot(2)]) = 1
  /\ custom_ops # {}

\* C21: a quantifier node whose operand count, a non-list operand counting
\* as one, is not two evaluates none of its operands (no custom operator is
\* invoked and no operand's exception escapes) and returns false for `some`,
\* true for `all` and true for `none`, whatever the record.
C21_QuantifierArity ==
  (Evaluated /\ IsNode(rules) /\ OpOf(rules) \in Quantifiers /\ Len(OperandsOf(rules)) # 2)
  => /\ result = Bool(OpOf(rules) # OpSome)
     /\ calls = <<>>

\* C21's case: `some` with three operands on a record that is no mapping,
\* the first of which raises when evaluated and the last of which is a
\* registered probe; the call returned false and invoked nothing.
C21_Witness ==
  /\ Evaluated /\ IsNode(rules) /\ OpOf(rules) = OpSome
  /\ Len(OperandsOf(rules)) = 3
  /\ custom_ops = {<<OpProbe, "first">>}
  /\ IsExc(ValueOf(1, data))
  /\ eval(OperandsOf(rules)[3], data, custom_ops).calls # <<>>
  /\ data = IntV(5)
  /\ result = PyFalse /\ calls = <<>>

====
